---------------------------- MODULE Spec2Model ----------------------------
(***************************************************************************)
(* A model of the PSScript AI service (src/ai): the script sandbox and its *)
(* /execute endpoint, the PowerShell security guard, and the chat          *)
(* handlers that call the guard.                                           *)
(*                                                                         *)
(* Texts that the code inspects character by character (sandbox scripts)   *)
(* are sequences of one-character strings.  Texts that the code matches    *)
(* with regular expressions are drawn from named sample sets, and the      *)
(* sample records say which of the source's patterns match them.           *)
(***************************************************************************)
EXTENDS Integers, Sequences, FiniteSets, TLC

(***************************************************************************)
(* Bounds of the model.                                                    *)
(***************************************************************************)
\* Number of /execute requests in flight in the service.
NumRequests == 2
\* Largest timeout (in clock ticks) a request may ask for (the code allows 1..300).
MaxTimeout == 2

(***************************************************************************)
(* State.                                                                  *)
(***************************************************************************)
VARIABLES
    \* --- the /execute endpoint and ScriptSandbox.execute ---
    loop,        \* the request whose handler occupies the event loop, 0 when free
    pc,          \* per request: where its handler / execute call stands
    req,         \* per request: the SandboxRequest (script, timeout, validate_only)
    sandbox,     \* per request: the ScriptSandbox object built by the handler
    validation,  \* per request: execute()'s locals is_valid, warnings, blocked
    temp_dir,    \* per request: the directory mkdtemp returned, 0 before
    disk,        \* the pssandbox_ directories that exist on disk
    child,       \* per request: the pwsh child of subprocess.run
    elapsed,     \* per request: clock ticks spent in subprocess.run
    spawns,      \* per request: processes execute() has spawned
    result,      \* per request: the ExecutionResult of execute()
    response,    \* per request: the SandboxResponse sent to the client
    \* --- scan_powershell_code and validate_generated_output ---
    scan_code,      \* the code text given to the scanner
    scan_strict_mode, \* the strict_mode argument of scan_powershell_code
    line_num,       \* lines the loop of scan_powershell_code has processed
    scan_state,     \* its locals overall_level, findings, blocked, warnings
    scan_returned,  \* the SecurityScanResult it returned
    output_request, \* the original_request given to validate_generated_output
    output_result,  \* what validate_generated_output returned
    \* --- the chat handlers of main.py ---
    security_guard, \* the module-level PowerShellSecurityGuard
    mock_mode,      \* MOCK_MODE
    chat_pc,        \* where the chat handler stands
    chat_request,   \* the ChatRequest: endpoint, latest user message, api key, agent_type
    model_input,    \* the user message content sent to the model, if it was called
    delivered,      \* what the handler has returned or yielded to the caller, in order
    \* --- PowerShellSecurityGuard.scan and validate_output ---
    guard_scans,    \* the code of every scan() call on security_guard, in call order
    output_validation, \* the last validate_output() call: its arguments and what it returned
    \* --- TopicValidator ---
    topic_validator, \* the TopicValidator: strict_mode and conversation_history
    topic_message,   \* the user_message of the validate() call that has just returned
    topic_checked,   \* what validate_powershell_topic returned to that call
    topic_result,    \* what validate() returned
    \* --- ModelRouter ---
    router,          \* the ModelRouter: default_model and cost_sensitive
    route_query,     \* the query of the route() call that has just returned
    route_context,   \* the number of messages in the context of that call
    route_decision,  \* the RoutingDecision it returned
    task_call,       \* the last get_model_for_task call: its arguments and what it returned
    _router,         \* the module singleton _router
    got_router,      \* the last get_router call: its argument and the router it returned
    \* --- TokenCounter ---
    usage_data,      \* token_counter.usage_data, the usage document
    usage_clock,     \* readings datetime.now() has given so far
    usage_calls,     \* the track_usage calls since the last reset, in call order
    usage_resets,    \* reset_usage calls made
    usage_estimate,  \* what the last estimate_cost call returned
    \* --- CodeDiffGenerator ---
    diff_original,   \* the original text given to generate_diff
    diff_improved,   \* the improved text given to generate_diff
    diff_returned,   \* whether generate_diff has returned
    diff_result,     \* the DiffResult it returned
    \* --- PesterGenerator ---
    pester_generator, \* the PesterGenerator: include_mocks and test_coverage
    pester_script,    \* the script given to parse_functions
    pester_functions, \* the FunctionInfo list given to generate_tests
    pester_tests,     \* the PesterTest list generate_tests returned
    \* --- LangGraph analysis workflow ---
    graph_state,     \* the PowerShellAnalysisState of the workflow
    graph_node,      \* the node that runs next, END, or Unmapped
    graph_routed,    \* what should_continue returned last
    \* --- retry_with_backoff ---
    retry_wrapper,   \* the arguments of the decorator: max_retries and retryable_errors
    retry_attempt,   \* attempt, the loop variable of the wrapper
    retry_delay,     \* delay, in seconds
    retry_calls,     \* what every invocation of the wrapped function did, in order
    retry_sleeps,    \* the wait_time of every sleep, in order
    retry_outcome    \* what the wrapper did: still running, returned, or raised

sandbox_vars ==
    <<loop, pc, req, sandbox, validation, temp_dir, disk, child, elapsed, spawns,
      result, response>>

scan_vars ==
    <<scan_code, scan_strict_mode, line_num, scan_state, scan_returned, output_request, output_result>>

chat_vars == <<security_guard, mock_mode, chat_pc, chat_request, model_input, delivered>>

guard_vars == <<guard_scans, output_validation>>

topic_vars == <<topic_validator, topic_message, topic_checked, topic_result>>

router_vars == <<router, route_query, route_context, route_decision, task_call, _router, got_router>>

usage_vars == <<usage_data, usage_clock, usage_calls, usage_resets, usage_estimate>>

diff_vars == <<diff_original, diff_improved, diff_returned, diff_result>>

pester_vars == <<pester_generator, pester_script, pester_functions, pester_tests>>

graph_vars == <<graph_state, graph_node, graph_routed>>

retry_vars == <<retry_wrapper, retry_attempt, retry_delay, retry_calls, retry_sleeps, retry_outcome>>

vars == <<sandbox_vars, scan_vars, chat_vars, guard_vars, topic_vars, router_vars, usage_vars, diff_vars, pester_vars, graph_vars, retry_vars>>

(***************************************************************************)
(* Character helpers (Python str on ASCII text).                           *)
(***************************************************************************)
LowerLetters ==
    <<"a","b","c","d","e","f","g","h","i","j","k","l","m",
      "n","o","p","q","r","s","t","u","v","w","x","y","z">>

UpperLetters ==
    <<"A","B","C","D","E","F","G","H","I","J","K","L","M",
      "N","O","P","Q","R","S","T","U","V","W","X","Y","Z">>

Digits == {"0","1","2","3","4","5","6","7","8","9"}

\* str.upper() on one character
ToUpper(c) ==
    IF \E i \in 1..26 : LowerLetters[i] = c
    THEN UpperLetters[CHOOSE i \in 1..26 : LowerLetters[i] = c]
    ELSE c

\* str.upper()
Upper(s) == [i \in 1..Len(s) |-> ToUpper(s[i])]

\* needle in hay (Python substring test)
Contains(hay, needle) ==
    \E i \in 1..(Len(hay) - Len(needle) + 1) :
        SubSeq(hay, i, i + Len(needle) - 1) = needle

\* \w of the re module, on ASCII text
IsWordChar(c) ==
    \/ \E i \in 1..26 : LowerLetters[i] = c \/ UpperLetters[i] = c
    \/ c \in Digits
    \/ c = "_"

\* \b at the gap before position p of s (p in 1..Len(s)+1)
IsWordBoundary(s, p) ==
    LET before == p > 1 /\ IsWordChar(s[p - 1])
        after  == p <= Len(s) /\ IsWordChar(s[p])
    IN  before # after

\* re.search(rf'\b{cmd}\b', script, re.IGNORECASE) for a literal cmd
WordSearch(cmd, script) ==
    \E i \in 1..(Len(script) - Len(cmd) + 1) :
        /\ Upper(SubSeq(script, i, i + Len(cmd) - 1)) = Upper(cmd)
        /\ IsWordBoundary(script, i)
        /\ IsWordBoundary(script, i + Len(cmd))

(***************************************************************************)
(* ScriptSandbox: the block list, the allow list, validate_script.         *)
(***************************************************************************)
BLOCKED_COMMANDS ==
    << <<"I","n","v","o","k","e","-","E","x","p","r","e","s","s","i","o","n">>,
       <<"i","e","x">>,
       <<"I","n","v","o","k","e","-","C","o","m","m","a","n","d">>,
       <<"i","c","m">>,
       <<"S","t","a","r","t","-","P","r","o","c","e","s","s">>,
       <<"s","a","p","s">>,
       <<"I","n","v","o","k","e","-","W","e","b","R","e","q","u","e","s","t">>,
       <<"i","w","r">>,
       <<"I","n","v","o","k","e","-","R","e","s","t","M","e","t","h","o","d">>,
       <<"i","r","m">>,
       <<"w","g","e","t">>,
       <<"c","u","r","l">>,
       <<"N","e","t",".","W","e","b","C","l","i","e","n","t">>,
       <<"S","t","a","r","t","-","B","i","t","s","T","r","a","n","s","f","e","r">>,
       <<"S","e","t","-","I","t","e","m","P","r","o","p","e","r","t","y">>,
       <<"R","e","m","o","v","e","-","I","t","e","m","P","r","o","p","e","r","t","y">>,
       <<"N","e","w","-","I","t","e","m","P","r","o","p","e","r","t","y">>,
       <<"S","t","a","r","t","-","S","e","r","v","i","c","e">>,
       <<"S","t","o","p","-","S","e","r","v","i","c","e">>,
       <<"S","e","t","-","S","e","r","v","i","c","e">>,
       <<"R","e","s","t","a","r","t","-","S","e","r","v","i","c","e">>,
       <<"R","e","g","i","s","t","e","r","-","S","c","h","e","d","u","l","e","d","T","a","s","k">>,
       <<"S","e","t","-","S","c","h","e","d","u","l","e","d","T","a","s","k">>,
       <<"N","e","w","-","L","o","c","a","l","U","s","e","r">>,
       <<"A","d","d","-","L","o","c","a","l","G","r","o","u","p","M","e","m","b","e","r">>,
       <<"S","e","t","-","L","o","c","a","l","U","s","e","r">>,
       <<"E","n","t","e","r","-","P","S","S","e","s","s","i","o","n">>,
       <<"N","e","w","-","P","S","S","e","s","s","i","o","n">>,
       <<"I","n","v","o","k","e","-","C","i","m","M","e","t","h","o","d">>,
       <<"R","e","m","o","v","e","-","I","t","e","m">>,
       <<"r","i">>,
       <<"d","e","l">>,
       <<"r","m","d","i","r">>,
       <<"C","l","e","a","r","-","C","o","n","t","e","n","t">>,
       <<"S","e","t","-","C","o","n","t","e","n","t">>,
       <<"O","u","t","-","F","i","l","e">>,
       <<"A","d","d","-","C","o","n","t","e","n","t">>,
       <<"S","e","t","-","V","a","r","i","a","b","l","e">>,
       <<"N","e","w","-","V","a","r","i","a","b","l","e">>,
       <<"[","E","n","v","i","r","o","n","m","e","n","t","]">>,
       <<"S","e","t","-","E","x","e","c","u","t","i","o","n","P","o","l","i","c","y">>,
       <<"-","E","x","e","c","u","t","i","o","n","P","o","l","i","c","y"," ","B","y","p","a","s","s">>,
       <<"[","S","y","s","t","e","m",".","C","o","n","v","e","r","t","]",":",":","F","r","o","m","B","a","s","e","6","4","S","t","r","i","n","g">>,
       <<"[","T","e","x","t",".","E","n","c","o","d","i","n","g","]">>,
       <<"A","d","d","-","T","y","p","e">>,
       <<"[","R","e","f","l","e","c","t","i","o","n",".","A","s","s","e","m","b","l","y","]">>,
       <<"L","o","a","d","(">>,
       <<"N","e","w","-","O","b","j","e","c","t"," ","-","C","o","m","O","b","j","e","c","t">> >>

ALLOWED_COMMANDS ==
    << <<"G","e","t","-","P","r","o","c","e","s","s">>,
       <<"G","e","t","-","S","e","r","v","i","c","e">>,
       <<"G","e","t","-","E","v","e","n","t","L","o","g">>,
       <<"G","e","t","-","W","i","n","E","v","e","n","t">>,
       <<"G","e","t","-","C","i","m","I","n","s","t","a","n","c","e">>,
       <<"G","e","t","-","W","m","i","O","b","j","e","c","t">>,
       <<"G","e","t","-","C","o","m","p","u","t","e","r","I","n","f","o">>,
       <<"G","e","t","-","C","h","i","l","d","I","t","e","m">>,
       <<"G","e","t","-","I","t","e","m">>,
       <<"G","e","t","-","C","o","n","t","e","n","t">>,
       <<"T","e","s","t","-","P","a","t","h">>,
       <<"G","e","t","-","L","o","c","a","t","i","o","n">>,
       <<"R","e","s","o","l","v","e","-","P","a","t","h">>,
       <<"G","e","t","-","C","o","m","m","a","n","d">>,
       <<"G","e","t","-","H","e","l","p">>,
       <<"G","e","t","-","M","o","d","u","l","e">>,
       <<"G","e","t","-","V","a","r","i","a","b","l","e">>,
       <<"G","e","t","-","A","l","i","a","s">>,
       <<"S","e","l","e","c","t","-","O","b","j","e","c","t">>,
       <<"W","h","e","r","e","-","O","b","j","e","c","t">>,
       <<"F","o","r","E","a","c","h","-","O","b","j","e","c","t">>,
       <<"S","o","r","t","-","O","b","j","e","c","t">>,
       <<"G","r","o","u","p","-","O","b","j","e","c","t">>,
       <<"M","e","a","s","u","r","e","-","O","b","j","e","c","t">>,
       <<"F","o","r","m","a","t","-","T","a","b","l","e">>,
       <<"F","o","r","m","a","t","-","L","i","s","t">>,
       <<"O","u","t","-","S","t","r","i","n","g">>,
       <<"C","o","n","v","e","r","t","T","o","-","J","s","o","n">>,
       <<"C","o","n","v","e","r","t","F","r","o","m","-","J","s","o","n">>,
       <<"M","e","a","s","u","r","e","-","C","o","m","m","a","n","d">>,
       <<"G","e","t","-","D","a","t","e">>,
       <<"N","e","w","-","T","i","m","e","S","p","a","n">> >>

suspicious_patterns ==
    << [pattern |-> <<"-","E","n","c","o","d","e","d","C","o","m","m","a","n","d">>,
        warning |-> "Encoded commands are not allowed"],
       [pattern |-> <<"-","e","n","c"," ">>,
        warning |-> "Encoded commands are not allowed"],
       [pattern |-> <<"D","o","w","n","l","o","a","d","S","t","r","i","n","g">>,
        warning |-> "Remote code execution not allowed"],
       [pattern |-> <<"D","o","w","n","l","o","a","d","F","i","l","e">>,
        warning |-> "File downloads not allowed"],
       [pattern |-> <<"S","y","s","t","e","m",".","N","e","t",".">>,
        warning |-> "Network classes not allowed"],
       [pattern |-> <<"S","y","s","t","e","m",".","I","O",".","F","i","l","e">>,
        warning |-> "Direct file access not allowed"],
       [pattern |-> <<":",":","W","r","i","t","e","A","l","l","B","y","t","e","s">>,
        warning |-> "Binary file writing not allowed"],
       [pattern |-> <<"$","e","n","v",":">>,
        warning |-> "Environment variable access detected"],
       [pattern |-> <<"$","p","r","o","f","i","l","e">>,
        warning |-> "Profile access not allowed"] >>
\* The aliases validate_script looks for as whole words only.
WordBoundaryAliases ==
    { <<"i","e","x">>, <<"i","c","m">>, <<"i","w","r">>, <<"i","r","m">> }

\* One pass of the loop over BLOCKED_COMMANDS, from index i on.
RECURSIVE BlockedFrom(_, _)
BlockedFrom(script, i) ==
    IF i > Len(BLOCKED_COMMANDS) THEN <<>>
    ELSE LET cmd == BLOCKED_COMMANDS[i]
             hit == /\ Contains(Upper(script), Upper(cmd))
                    /\ (cmd \in WordBoundaryAliases => WordSearch(cmd, script))
         IN  (IF hit THEN <<cmd>> ELSE <<>>) \o BlockedFrom(script, i + 1)

\* "Net" in pattern
NetLiteral == <<"N","e","t">>

\* The loop over suspicious_patterns: the patterns it blocks, from index i on.
RECURSIVE SuspiciousBlockedFrom(_, _, _)
SuspiciousBlockedFrom(script, allow_network, i) ==
    IF i > Len(suspicious_patterns) THEN <<>>
    ELSE LET p   == suspicious_patterns[i]
             hit == Contains(Upper(script), Upper(p.pattern))
             blk == hit /\ ~allow_network /\ Contains(p.pattern, NetLiteral)
         IN  (IF blk THEN <<p.pattern>> ELSE <<>>)
                 \o SuspiciousBlockedFrom(script, allow_network, i + 1)

\* The loop over suspicious_patterns: the warnings it adds, from index i on.
RECURSIVE SuspiciousWarningsFrom(_, _, _)
SuspiciousWarningsFrom(script, allow_network, i) ==
    IF i > Len(suspicious_patterns) THEN <<>>
    ELSE LET p   == suspicious_patterns[i]
             hit == Contains(Upper(script), Upper(p.pattern))
             blk == ~allow_network /\ Contains(p.pattern, NetLiteral)
         IN  (IF hit /\ ~blk THEN <<p.warning>> ELSE <<>>)
                 \o SuspiciousWarningsFrom(script, allow_network, i + 1)

\* is_valid = len(blocked) == 0
IsValidMutant(blocked) == TRUE

is_valid(blocked) == Len(blocked) = 0

\* ScriptSandbox.validate_script
validate_script(script, allow_network) ==
    LET blocked == BlockedFrom(script, 1)
                       \o SuspiciousBlockedFrom(script, allow_network, 1)
    IN  [is_valid |-> is_valid(blocked),
         warnings |-> SuspiciousWarningsFrom(script, allow_network, 1),
         blocked  |-> blocked]

\* Scripts submitted to the sandbox in this model.
SandboxScripts ==
    { <<"G","e","t","-","D","a","t","e">>,                      \* Get-Date
      <<"i","e","x">>,                                          \* iex
      <<"$","i","e","x"," ","="," ","1">>,                      \* $iex = 1
      <<"G","e","t","-","V","a","r","i","a","b","l","e">>,      \* Get-Variable
      <<"R","e","m","o","v","e","-","I","t","e","m"," ","x">>,  \* Remove-Item x
      <<"$","e","n","v",":","P","A","T","H">>,                  \* $env:PATH
      <<"S","y","s","t","e","m",".","N","e","t",".","D","n","s">> } \* System.Net.Dns

\* validate_script on every script of the model, evaluated once.
Validated == [s \in SandboxScripts |-> [a \in BOOLEAN |-> validate_script(s, a)]]

Requests == 1..NumRequests

Timeouts == 1..MaxTimeout

NoRequest == [script |-> <<>>, timeout |-> 0, validate_only |-> FALSE]

NoSandbox == [timeout |-> 0, allow_network |-> FALSE]

NoValidation == [is_valid |-> FALSE, warnings |-> <<>>, blocked |-> <<>>]

NoResult == [status |-> "none"]

NoResponse == [status |-> "none", exit_code |-> 0]

\* What the child wrote to stdout, after _truncate_output: "" stays "", and a
\* non-empty output stays non-empty.
Outputs == {"", "captured"}

ExecutionResult(status, stdout, stderr, exit_code, execution_time, warnings, blocked) ==
    [status |-> status, stdout |-> stdout, stderr |-> stderr,
     exit_code |-> exit_code, execution_time |-> execution_time,
     warnings |-> warnings, blocked_commands |-> blocked]

\* SandboxResponse(status=..., exit_code=..., ...): the model keeps these two
\* fields of a response that has been sent.
SandboxResponse(status, exit_code) == [status |-> status, exit_code |-> exit_code]

\* f"Script execution timed out after {self.timeout} seconds"
TimedOutMessage(timeout) == [text |-> "Script execution timed out after N seconds", N |-> timeout]

\* f"Script blocked: Contains forbidden commands: {', '.join(blocked)}"
BlockedMessage(blocked) == [text |-> "Script blocked: Contains forbidden commands", commands |-> blocked]

SandboxInit ==
    /\ loop = 0
    /\ pc = [r \in Requests |-> "pending"]
    /\ req = [r \in Requests |-> NoRequest]
    /\ sandbox = [r \in Requests |-> NoSandbox]
    /\ validation = [r \in Requests |-> NoValidation]
    /\ temp_dir = [r \in Requests |-> 0]
    /\ disk = {}
    /\ child = [r \in Requests |-> "none"]
    /\ elapsed = [r \in Requests |-> 0]
    /\ spawns = [r \in Requests |-> 0]
    /\ result = [r \in Requests |-> NoResult]
    /\ response = [r \in Requests |-> NoResponse]

(***************************************************************************)
(* The /execute handler (main.py) and ScriptSandbox.execute, step by step. *)
(***************************************************************************)
\* The handler is an async def with no await in it: once the event loop runs
\* it, the loop runs nothing else until the handler returns.
HandlerStart(r) ==
    /\ pc[r] = "pending"
    /\ loop = 0
    /\ \E s \in SandboxScripts, t \in Timeouts, v \in BOOLEAN :
          /\ req' = [req EXCEPT ![r] = [script |-> s, timeout |-> t, validate_only |-> v]]
          \* sandbox = ScriptSandbox(timeout_seconds=request.timeout)
          /\ sandbox' = [sandbox EXCEPT ![r] = [timeout |-> t, allow_network |-> FALSE]]
    /\ loop' = r
    /\ pc' = [pc EXCEPT ![r] = "handler"]
    /\ UNCHANGED <<validation, temp_dir, disk, child, elapsed, spawns, result, response>>
    /\ UNCHANGED <<scan_vars, chat_vars, guard_vars, topic_vars, router_vars, usage_vars, diff_vars, pester_vars, graph_vars, retry_vars>>

\* The locals of a handler are gone once it has returned.
Finish(r, resp) ==
    /\ response' = [response EXCEPT ![r] = resp]
    /\ pc' = [pc EXCEPT ![r] = "done"]
    /\ loop' = 0
    /\ req' = [req EXCEPT ![r] = NoRequest]
    /\ sandbox' = [sandbox EXCEPT ![r] = NoSandbox]
    /\ validation' = [validation EXCEPT ![r] = NoValidation]
    /\ temp_dir' = [temp_dir EXCEPT ![r] = 0]
    /\ child' = [child EXCEPT ![r] = IF child[r] = "running" THEN "running" ELSE "none"]
    /\ elapsed' = [elapsed EXCEPT ![r] = 0]
    /\ spawns' = [spawns EXCEPT ![r] = 0]
    /\ result' = [result EXCEPT ![r] = NoResult]
    /\ UNCHANGED disk

\* if request.validate_only: ...
HandlerValidateOnly(r) ==
    /\ pc[r] = "handler"
    /\ req[r].validate_only
    /\ LET v == Validated[req[r].script][sandbox[r].allow_network]
       IN  Finish(r, SandboxResponse(IF v.is_valid THEN "valid" ELSE "blocked", 0))
    /\ UNCHANGED <<scan_vars, chat_vars, guard_vars, topic_vars, router_vars, usage_vars, diff_vars, pester_vars, graph_vars, retry_vars>>

\* execute(): validate_script, and the BLOCKED return
ExecuteValidate(r) ==
    /\ pc[r] = "handler"
    /\ ~req[r].validate_only
    /\ LET v == Validated[req[r].script][sandbox[r].allow_network]
       IN  /\ validation' = [validation EXCEPT ![r] = v]
           /\ IF ~v.is_valid
              THEN /\ result' = [result EXCEPT ![r] =
                          ExecutionResult("blocked", "", BlockedMessage(v.blocked), -1, 0,
                                          v.warnings, v.blocked)]
                   /\ pc' = [pc EXCEPT ![r] = "returned"]
              ELSE /\ result' = result
                   /\ pc' = [pc EXCEPT ![r] = "mkdtemp"]
    /\ UNCHANGED <<loop, req, sandbox, temp_dir, disk, child, elapsed, spawns, response>>
    /\ UNCHANGED <<scan_vars, chat_vars, guard_vars, topic_vars, router_vars, usage_vars, diff_vars, pester_vars, graph_vars, retry_vars>>

\* temp_dir = tempfile.mkdtemp(prefix="pssandbox_"), before the try block
ExecuteMkdtemp(r) ==
    /\ pc[r] = "mkdtemp"
    /\ \/ \* the directory is created
          /\ temp_dir' = [temp_dir EXCEPT ![r] = r]
          /\ disk' = disk \cup {r}
          /\ pc' = [pc EXCEPT ![r] = "write"]
       \/ \* mkdtemp raises OSError: nothing encloses it
          /\ pc' = [pc EXCEPT ![r] = "raised"]
          /\ UNCHANGED <<temp_dir, disk>>
    /\ UNCHANGED <<loop, req, sandbox, validation, child, elapsed, spawns, result, response>>
    /\ UNCHANGED <<scan_vars, chat_vars, guard_vars, topic_vars, router_vars, usage_vars, diff_vars, pester_vars, graph_vars, retry_vars>>

\* except Exception as e: the ERROR result of the outer handler
ErrorResult(r) ==
    ExecutionResult("error", "", "exception", -1, elapsed[r],
                    validation[r].warnings, <<>>)

\* with open(script_path, 'w') as f: f.write(...)
ExecuteWriteScript(r) ==
    /\ pc[r] = "write"
    /\ \/ /\ pc' = [pc EXCEPT ![r] = "spawn"]
          /\ result' = result
       \/ \* open or write raises: caught by except Exception
          /\ result' = [result EXCEPT ![r] = ErrorResult(r)]
          /\ pc' = [pc EXCEPT ![r] = "finally"]
    /\ UNCHANGED <<loop, req, sandbox, validation, temp_dir, disk, child, elapsed, spawns, response>>
    /\ UNCHANGED <<scan_vars, chat_vars, guard_vars, topic_vars, router_vars, usage_vars, diff_vars, pester_vars, graph_vars, retry_vars>>

\* subprocess.run(cmd, ..., timeout=self.timeout): the child is started
ExecuteSpawn(r) ==
    /\ pc[r] = "spawn"
    /\ \/ /\ child' = [child EXCEPT ![r] = "running"]
          /\ spawns' = [spawns EXCEPT ![r] = @ + 1]
          /\ pc' = [pc EXCEPT ![r] = "wait"]
          /\ result' = result
       \/ \* Popen raises (pwsh not found, fork failure): caught by except Exception
          /\ result' = [result EXCEPT ![r] = ErrorResult(r)]
          /\ pc' = [pc EXCEPT ![r] = "finally"]
          /\ UNCHANGED <<child, spawns>>
    /\ UNCHANGED <<loop, req, sandbox, validation, temp_dir, disk, elapsed, response>>
    /\ UNCHANGED <<scan_vars, chat_vars, guard_vars, topic_vars, router_vars, usage_vars, diff_vars, pester_vars, graph_vars, retry_vars>>

\* The clock advances while subprocess.run waits for the child.
Tick(r) ==
    /\ pc[r] = "wait"
    /\ elapsed[r] < sandbox[r].timeout
    /\ elapsed' = [elapsed EXCEPT ![r] = @ + 1]
    /\ UNCHANGED <<loop, pc, req, sandbox, validation, temp_dir, disk, child, spawns, result, response>>
    /\ UNCHANGED <<scan_vars, chat_vars, guard_vars, topic_vars, router_vars, usage_vars, diff_vars, pester_vars, graph_vars, retry_vars>>

\* status = SUCCESS if result.returncode == 0 else ERROR
StatusOf(returncode) == IF returncode = 0 THEN "success" ELSE "error"

\* The child exits before the timeout; subprocess.run returns.
ChildExit(r) ==
    /\ pc[r] = "wait"
    /\ elapsed[r] < sandbox[r].timeout
    /\ \E code \in {0, 1}, out \in Outputs, err \in Outputs :
          result' = [result EXCEPT ![r] =
              ExecutionResult(StatusOf(code), out, err, code, elapsed[r],
                  validation[r].warnings, <<>>)]
    /\ child' = [child EXCEPT ![r] = "exited"]
    /\ pc' = [pc EXCEPT ![r] = "finally"]
    /\ UNCHANGED <<loop, req, sandbox, validation, temp_dir, disk, elapsed, spawns, response>>
    /\ UNCHANGED <<scan_vars, chat_vars, guard_vars, topic_vars, router_vars, usage_vars, diff_vars, pester_vars, graph_vars, retry_vars>>

\* subprocess.run on timeout: process.kill(), process.wait(), raise TimeoutExpired
ChildAfterTimeoutMutant(c) == c

ChildAfterTimeout(c) == "killed"

\* except subprocess.TimeoutExpired: the TIMEOUT result
ExecuteTimeout(r) ==
    /\ pc[r] = "wait"
    /\ elapsed[r] = sandbox[r].timeout
    /\ child' = [child EXCEPT ![r] = ChildAfterTimeout(@)]
    /\ result' = [result EXCEPT ![r] =
          ExecutionResult("timeout", "", TimedOutMessage(sandbox[r].timeout), -1,
              sandbox[r].timeout,
              validation[r].warnings, <<>>)]
    /\ pc' = [pc EXCEPT ![r] = "finally"]
    /\ UNCHANGED <<loop, req, sandbox, validation, temp_dir, disk, elapsed, spawns, response>>
    /\ UNCHANGED <<scan_vars, chat_vars, guard_vars, topic_vars, router_vars, usage_vars, diff_vars, pester_vars, graph_vars, retry_vars>>

\* finally: shutil.rmtree(temp_dir), a failure of which is logged and dropped
ExecuteFinally(r) ==
    /\ pc[r] = "finally"
    /\ \/ disk' = disk \ {temp_dir[r]}
       \/ \* rmtree raises: logger.warning, the directory stays
          disk' = disk
    /\ pc' = [pc EXCEPT ![r] = "returned"]
    /\ UNCHANGED <<loop, req, sandbox, validation, temp_dir, child, elapsed, spawns, result, response>>
    /\ UNCHANGED <<scan_vars, chat_vars, guard_vars, topic_vars, router_vars, usage_vars, diff_vars, pester_vars, graph_vars, retry_vars>>

\* return SandboxResponse(status=result.status.value, ...)
HandlerReturn(r) ==
    /\ pc[r] = "returned"
    /\ Finish(r, SandboxResponse(result[r].status, result[r].exit_code))
    /\ UNCHANGED <<scan_vars, chat_vars, guard_vars, topic_vars, router_vars, usage_vars, diff_vars, pester_vars, graph_vars, retry_vars>>

\* except Exception as e: return SandboxResponse(status="error", ...)
HandlerExcept(r) ==
    /\ pc[r] = "raised"
    /\ Finish(r, SandboxResponse("error", -1))
    /\ UNCHANGED <<scan_vars, chat_vars, guard_vars, topic_vars, router_vars, usage_vars, diff_vars, pester_vars, graph_vars, retry_vars>>

SandboxNext ==
    \E r \in Requests :
        \/ HandlerStart(r)
        \/ HandlerValidateOnly(r)
        \/ ExecuteValidate(r)
        \/ ExecuteMkdtemp(r)
        \/ ExecuteWriteScript(r)
        \/ ExecuteSpawn(r)
        \/ Tick(r)
        \/ ChildExit(r)
        \/ ExecuteTimeout(r)
        \/ ExecuteFinally(r)
        \/ HandlerReturn(r)
        \/ HandlerExcept(r)

(***************************************************************************)
(* powershell_security: the pattern tables of scan_powershell_code.        *)
(***************************************************************************)
DANGEROUS_COMMANDS ==
    << [pattern |-> "Format-Volume",
        level |-> "critical", message |-> "Formats entire disk volumes - data loss"],
       [pattern |-> "Clear-Disk",
        level |-> "critical", message |-> "Clears entire disk - data loss"],
       [pattern |-> "Remove-Item\\s+.*-Recurse.*[/\\\\](Windows|System32|Program Files)",
        level |-> "critical", message |-> "Recursive deletion of system folders"],
       [pattern |-> "Remove-Item\\s+.*\\$env:(SystemRoot|windir)",
        level |-> "critical", message |-> "Deletion of Windows system directory"],
       [pattern |-> "Stop-Computer\\s*-Force",
        level |-> "high", message |-> "Forces immediate shutdown"],
       [pattern |-> "Restart-Computer\\s*-Force",
        level |-> "high", message |-> "Forces immediate restart"],
       [pattern |-> "Remove-Item\\s+.*HKLM:\\\\",
        level |-> "critical", message |-> "Deleting system registry keys"],
       [pattern |-> "Remove-ItemProperty\\s+.*HKLM:\\\\",
        level |-> "high", message |-> "Removing system registry values"],
       [pattern |-> "Set-ItemProperty\\s+.*HKLM:\\\\.*\\\\Run",
        level |-> "high", message |-> "Modifying startup registry"],
       [pattern |-> "Stop-Service\\s+.*wuauserv",
        level |-> "medium", message |-> "Stopping Windows Update service"],
       [pattern |-> "Stop-Service\\s+.*WinDefend",
        level |-> "high", message |-> "Stopping Windows Defender"],
       [pattern |-> "Set-Service\\s+.*-StartupType\\s+Disabled",
        level |-> "medium", message |-> "Disabling services"],
       [pattern |-> "Set-NetFirewallProfile\\s+.*-Enabled\\s+False",
        level |-> "high", message |-> "Disabling firewall"],
       [pattern |-> "Disable-WindowsOptionalFeature",
        level |-> "medium", message |-> "Disabling Windows features"],
       [pattern |-> "-ExecutionPolicy\\s+Bypass",
        level |-> "medium", message |-> "Bypassing execution policy"],
       [pattern |-> "Set-ExecutionPolicy\\s+Unrestricted",
        level |-> "medium", message |-> "Setting unrestricted execution"] >>

CREDENTIAL_PATTERNS ==
    << [pattern |-> "password\\s*=\\s*[\"\\'][^\"\\']+[\"\\']",
        message |-> "Hardcoded password detected"],
       [pattern |-> "ConvertTo-SecureString\\s+.*-AsPlainText",
        message |-> "Plain text password conversion"],
       [pattern |-> "api[_-]?key\\s*=\\s*[\"\\'][^\"\\']+[\"\\']",
        message |-> "Hardcoded API key detected"],
       [pattern |-> "secret\\s*=\\s*[\"\\'][^\"\\']+[\"\\']",
        message |-> "Hardcoded secret detected"],
       [pattern |-> "token\\s*=\\s*[\"\\'][^\"\\']+[\"\\']",
        message |-> "Hardcoded token detected"],
       [pattern |-> "\\$cred\\s*=\\s*.*password",
        message |-> "Credential with embedded password"],
       [pattern |-> "Authorization.*Bearer\\s+[A-Za-z0-9\\-_]+",
        message |-> "Hardcoded bearer token"] >>

OBFUSCATION_PATTERNS ==
    << [pattern |-> "-[Ee]ncoded[Cc]ommand",
        message |-> "Base64 encoded command execution"],
       [pattern |-> "\\[System\\.Convert\\]::FromBase64String",
        message |-> "Base64 decoding (review content)"],
       [pattern |-> "-join\\s*\\(\\s*\\[char\\[\\]\\]",
        message |-> "Character array joining (obfuscation)"],
       [pattern |-> "\\$\\{[^}]+\\}",
        message |-> "Variable obfuscation with braces"],
       [pattern |-> "\\x60\\w",   \* the backtick, written as its character code
        message |-> "Backtick character escaping (potential obfuscation)"],
       [pattern |-> "IEX\\s*\\(",
        message |-> "Invoke-Expression (dynamic code execution)"],
       [pattern |-> "Invoke-Expression",
        message |-> "Dynamic code execution"],
       [pattern |-> "\\(\\s*\\[char\\]\\s*\\d+",
        message |-> "ASCII character code usage"] >>

NETWORK_PATTERNS ==
    << [pattern |-> "Invoke-WebRequest.*-OutFile",
        level |-> "medium", message |-> "Downloading file from web"],
       [pattern |-> "Invoke-RestMethod",
        level |-> "low", message |-> "REST API call - verify endpoint"],
       [pattern |-> "Start-BitsTransfer",
        level |-> "medium", message |-> "BITS file transfer"],
       [pattern |-> "Net\\.WebClient.*DownloadFile",
        level |-> "medium", message |-> "WebClient file download"],
       [pattern |-> "Net\\.WebClient.*DownloadString",
        level |-> "medium", message |-> "WebClient string download"],
       [pattern |-> "Send-MailMessage",
        level |-> "medium", message |-> "Sending email - verify recipient"],
       [pattern |-> "\\[System\\.Net\\.Sockets",
        level |-> "high", message |-> "Raw socket operations"] >>

PERSISTENCE_PATTERNS ==
    << [pattern |-> "New-ScheduledTask",
        message |-> "Creating scheduled task"],
       [pattern |-> "Register-ScheduledTask",
        message |-> "Registering scheduled task"],
       [pattern |-> "HKCU:\\\\.*\\\\Run",
        message |-> "Modifying user startup registry"],
       [pattern |-> "HKLM:\\\\.*\\\\Run",
        message |-> "Modifying system startup registry"],
       [pattern |-> "Startup\\\\.*\\.lnk",
        message |-> "Creating startup shortcut"],
       [pattern |-> "New-Service",
        message |-> "Creating new Windows service"] >>

SampleLines ==
    << [text |-> "",
        comment |-> FALSE,
        dangerous |-> {}, credential |-> {}, obfuscation |-> {},
        network |-> {}, persistence |-> {},
        commands |-> {},
        force |-> FALSE, whatif |-> FALSE, try |-> FALSE, catch |-> FALSE],
       [text |-> "Get-Date",
        comment |-> FALSE,
        dangerous |-> {}, credential |-> {}, obfuscation |-> {},
        network |-> {}, persistence |-> {},
        commands |-> {},
        force |-> FALSE, whatif |-> FALSE, try |-> FALSE, catch |-> FALSE],
       [text |-> "# Format-Volume -DriveLetter D",
        comment |-> TRUE,
        dangerous |-> {1}, credential |-> {}, obfuscation |-> {},
        network |-> {}, persistence |-> {},
        commands |-> {"Format-Volume"},
        force |-> FALSE, whatif |-> FALSE, try |-> FALSE, catch |-> FALSE],
       [text |-> "Format-Volume -DriveLetter D",
        comment |-> FALSE,
        dangerous |-> {1}, credential |-> {}, obfuscation |-> {},
        network |-> {}, persistence |-> {},
        commands |-> {"Format-Volume"},
        force |-> FALSE, whatif |-> FALSE, try |-> FALSE, catch |-> FALSE],
       [text |-> "Stop-Computer -Force",
        comment |-> FALSE,
        dangerous |-> {5}, credential |-> {}, obfuscation |-> {},
        network |-> {}, persistence |-> {},
        commands |-> {"Stop-Computer"},
        force |-> TRUE, whatif |-> FALSE, try |-> FALSE, catch |-> FALSE],
       [text |-> "Disable-WindowsOptionalFeature -Online",
        comment |-> FALSE,
        dangerous |-> {14}, credential |-> {}, obfuscation |-> {},
        network |-> {}, persistence |-> {},
        commands |-> {},
        force |-> FALSE, whatif |-> FALSE, try |-> FALSE, catch |-> FALSE],
       [text |-> "$password = 'hunter2'",
        comment |-> FALSE,
        dangerous |-> {}, credential |-> {1}, obfuscation |-> {},
        network |-> {}, persistence |-> {},
        commands |-> {},
        force |-> FALSE, whatif |-> FALSE, try |-> FALSE, catch |-> FALSE],
       [text |-> "Invoke-Expression $cmd",
        comment |-> FALSE,
        dangerous |-> {}, credential |-> {}, obfuscation |-> {7},
        network |-> {}, persistence |-> {},
        commands |-> {},
        force |-> FALSE, whatif |-> FALSE, try |-> FALSE, catch |-> FALSE],
       [text |-> "Invoke-RestMethod $uri",
        comment |-> FALSE,
        dangerous |-> {}, credential |-> {}, obfuscation |-> {},
        network |-> {2}, persistence |-> {},
        commands |-> {},
        force |-> FALSE, whatif |-> FALSE, try |-> FALSE, catch |-> FALSE],
       [text |-> "Send-MailMessage -To ops@example.com",
        comment |-> FALSE,
        dangerous |-> {}, credential |-> {}, obfuscation |-> {},
        network |-> {6}, persistence |-> {},
        commands |-> {},
        force |-> FALSE, whatif |-> FALSE, try |-> FALSE, catch |-> FALSE],
       [text |-> "[System.Net.Sockets.TcpClient]::new($h, 443)",
        comment |-> FALSE,
        dangerous |-> {}, credential |-> {}, obfuscation |-> {},
        network |-> {7}, persistence |-> {},
        commands |-> {},
        force |-> FALSE, whatif |-> FALSE, try |-> FALSE, catch |-> FALSE],
       [text |-> "New-Service -Name agent -BinaryPathName $exe",
        comment |-> FALSE,
        dangerous |-> {}, credential |-> {}, obfuscation |-> {},
        network |-> {}, persistence |-> {6},
        commands |-> {},
        force |-> FALSE, whatif |-> FALSE, try |-> FALSE, catch |-> FALSE],
       [text |-> "Stop-Computer -Force; Remove-Item HKLM:\\Software\\Contoso",
        comment |-> FALSE,
        dangerous |-> {5, 7}, credential |-> {}, obfuscation |-> {},
        network |-> {}, persistence |-> {},
        commands |-> {"Remove-Item", "Stop-Computer"},
        force |-> TRUE, whatif |-> FALSE, try |-> FALSE, catch |-> FALSE],
       [text |-> "Remove-Item $path -Force -WhatIf",
        comment |-> FALSE,
        dangerous |-> {}, credential |-> {}, obfuscation |-> {},
        network |-> {}, persistence |-> {},
        commands |-> {"Remove-Item"},
        force |-> TRUE, whatif |-> TRUE, try |-> FALSE, catch |-> FALSE],
       [text |-> "try { Get-Item $path } catch { Write-Warning $_ }",
        comment |-> FALSE,
        dangerous |-> {}, credential |-> {}, obfuscation |-> {},
        network |-> {}, persistence |-> {},
        commands |-> {},
        force |-> FALSE, whatif |-> FALSE, try |-> TRUE, catch |-> TRUE] >>
(***************************************************************************)
(* Lines of code given to the scanner.  Each sample line lists the indices *)
(* of the patterns of each table that re.search(pattern, line,             *)
(* re.IGNORECASE) finds in its text, whether line.strip() starts with '#', *)
(* and the literals validate_generated_output looks for.                   *)
(***************************************************************************)
\* Largest number of sample lines in a code text.
MaxLines == 2

\* if len(generated_code.split('\n')) > 30
ComplexScriptLines == 30

LineIds == 1..Len(SampleLines)

BlankLineId == CHOOSE i \in LineIds : SampleLines[i].text = ""

\* Blank lines that follow the sample lines of a code text: none, or enough to
\* make the text longer than ComplexScriptLines.
PadLengths == {0, ComplexScriptLines}

\* A code text: its sample lines, then pad blank lines, joined by '\n'.
\* redacted: the credential patterns whose matches have been replaced.
Codes ==
    { [body |-> b, pad |-> p, redacted |-> {}] :
          b \in UNION { [1..n -> LineIds] : n \in 1..MaxLines }, p \in PadLengths }

\* The empty string: code.split('\n') gives one empty line.
EmptyCode == [body |-> <<BlankLineId>>, pad |-> 0, redacted |-> {}]

\* len(code.split('\n'))
NumLines(code) == Len(code.body) + code.pad

\* lines[i - 1]
LineAt(code, i) ==
    IF i <= Len(code.body) THEN SampleLines[code.body[i]] ELSE SampleLines[BlankLineId]

SecurityFinding(level, category, message, line_number) ==
    [level |-> level, category |-> category, message |-> message,
     line_number |-> line_number]

\* The locals of scan_powershell_code before the loop over the lines.
ScanStart ==
    [overall_level |-> "safe", findings |-> <<>>, blocked |-> <<>>, warnings |-> <<>>]

\* for pattern, (level, message) in DANGEROUS_COMMANDS.items(), from pattern i on
RECURSIVE DangerousFrom(_, _, _, _)
DangerousFrom(st, line, num, i) ==
    IF i > Len(DANGEROUS_COMMANDS) \/ (\A j \in line.dangerous : j < i) THEN st   \* no pattern from i on matches
    ELSE IF i \notin line.dangerous THEN DangerousFrom(st, line, num, i + 1)
    ELSE LET p  == DANGEROUS_COMMANDS[i]
             s1 == [st EXCEPT !.findings = Append(@,
                        SecurityFinding(p.level, "destructive_operation", p.message, num))]
             s2 == IF p.level = "critical"
                   THEN [s1 EXCEPT !.blocked = Append(@, [line |-> num, message |-> p.message]),
                                   !.overall_level = "critical"]
                   ELSE IF p.level = "high" /\ s1.overall_level # "critical"
                   THEN [s1 EXCEPT !.overall_level = "high",
                                   !.warnings = Append(@, [line |-> num, message |-> p.message])]
                   ELSE s1
         IN  DangerousFrom(s2, line, num, i + 1)

\* for pattern, message in CREDENTIAL_PATTERNS.items(), from pattern i on
RECURSIVE CredentialFrom(_, _, _, _)
CredentialFrom(st, line, num, i) ==
    IF i > Len(CREDENTIAL_PATTERNS) \/ (\A j \in line.credential : j < i) THEN st   \* no pattern from i on matches
    ELSE IF i \notin line.credential THEN CredentialFrom(st, line, num, i + 1)
    ELSE LET p  == CREDENTIAL_PATTERNS[i]
             s1 == [st EXCEPT !.findings = Append(@,
                        SecurityFinding("high", "credential_exposure", p.message, num)),
                              !.warnings = Append(@, [line |-> num, message |-> p.message])]
             s2 == IF s1.overall_level = "safe"
                   THEN [s1 EXCEPT !.overall_level = "high"]
                   ELSE s1
         IN  CredentialFrom(s2, line, num, i + 1)

\* if overall_level in [SAFE, LOW]: overall_level = MEDIUM
ObfuscationLevelMutant(overall_level) == "medium"

ObfuscationLevel(overall_level) ==
    IF overall_level \in {"safe", "low"} THEN "medium" ELSE overall_level

\* for pattern, message in OBFUSCATION_PATTERNS.items(), from pattern i on
RECURSIVE ObfuscationFrom(_, _, _, _)
ObfuscationFrom(st, line, num, i) ==
    IF i > Len(OBFUSCATION_PATTERNS) \/ (\A j \in line.obfuscation : j < i) THEN st   \* no pattern from i on matches
    ELSE IF i \notin line.obfuscation THEN ObfuscationFrom(st, line, num, i + 1)
    ELSE LET p  == OBFUSCATION_PATTERNS[i]
             s1 == [st EXCEPT !.findings = Append(@,
                        SecurityFinding("medium", "obfuscation", p.message, num))]
             s2 == [s1 EXCEPT !.overall_level = ObfuscationLevel(@)]
         IN  ObfuscationFrom(s2, line, num, i + 1)

\* for pattern, (level, message) in NETWORK_PATTERNS.items(), from pattern i on
RECURSIVE NetworkFrom(_, _, _, _)
NetworkFrom(st, line, num, i) ==
    IF i > Len(NETWORK_PATTERNS) \/ (\A j \in line.network : j < i) THEN st   \* no pattern from i on matches
    ELSE IF i \notin line.network THEN NetworkFrom(st, line, num, i + 1)
    ELSE LET p == NETWORK_PATTERNS[i]
         IN  NetworkFrom([st EXCEPT !.findings = Append(@,
                             SecurityFinding(p.level, "network_operation", p.message, num))],
                         line, num, i + 1)

\* for pattern, message in PERSISTENCE_PATTERNS.items(), from pattern i on
RECURSIVE PersistenceFrom(_, _, _, _)
PersistenceFrom(st, line, num, i) ==
    IF i > Len(PERSISTENCE_PATTERNS) \/ (\A j \in line.persistence : j < i) THEN st   \* no pattern from i on matches
    ELSE IF i \notin line.persistence THEN PersistenceFrom(st, line, num, i + 1)
    ELSE LET p == PERSISTENCE_PATTERNS[i]
         IN  PersistenceFrom([st EXCEPT !.findings = Append(@,
                                 SecurityFinding("medium", "persistence", p.message, num))],
                             line, num, i + 1)

\* One pass of the body of "for line_num, line in enumerate(lines, 1)".
\* (The best-practice recommendations of the loop are not part of the model.)
ScanLine(st, line, num) ==
    IF line.comment THEN st
    ELSE PersistenceFrom(
             NetworkFrom(
                 ObfuscationFrom(
                     CredentialFrom(
                         DangerousFrom(st, line, num, 1),
                         line, num, 1),
                     line, num, 1),
                 line, num, 1),
             line, num, 1)

\* is_safe = overall_level not in [CRITICAL]; strict mode also rejects HIGH
IsSafeMutant(overall_level, strict_mode) == overall_level # "critical"

IsSafe(overall_level, strict_mode) ==
    IF strict_mode /\ overall_level \in {"high", "critical"}
    THEN FALSE
    ELSE overall_level \notin {"critical"}

\* result = SecurityScanResult(...)
SecurityScanResult(st, strict_mode) ==
    [is_safe |-> IsSafe(st.overall_level, strict_mode),
     overall_level |-> st.overall_level,
     findings |-> st.findings,
     blocked_operations |-> st.blocked,
     warnings |-> st.warnings]

\* The loop over the lines, from line i on.
RECURSIVE ScanFrom(_, _, _)
ScanFrom(st, code, i) ==
    IF i > NumLines(code) THEN st
    ELSE LET after == ScanLine(st, LineAt(code, i), i)   \* the locals after line i
         IN  IF after = st THEN ScanFrom(st, code, i + 1) ELSE ScanFrom(after, code, i + 1)

\* scan_powershell_code(code, strict_mode)
scan_powershell_code(code, strict_mode) ==
    SecurityScanResult(ScanFrom(ScanStart, code, 1), strict_mode)

(***************************************************************************)
(* validate_generated_output.                                              *)
(***************************************************************************)
\* original_request texts, with the safe words that occur in request.lower()
OutputRequests ==
    { [text |-> "show the current date", words |-> {}],
      [text |-> "list the running services", words |-> {"list"}],
      [text |-> "read a log file and delete it", words |-> {"read", "delete"}] }

dangerous_mismatch_keywords ==
    << [safe_word |-> "delete", dangerous_cmd |-> "Format-Volume"],
       [safe_word |-> "delete", dangerous_cmd |-> "Clear-Disk"],
       [safe_word |-> "read",   dangerous_cmd |-> "Remove-Item"],
       [safe_word |-> "list",   dangerous_cmd |-> "Stop-Computer"],
       [safe_word |-> "get",    dangerous_cmd |-> "Set-ExecutionPolicy"] >>

\* The lines of a code text, as a set of sample-line records.
LinesOf(code) == { LineAt(code, i) : i \in 1..NumLines(code) }

\* Check 2: the mismatch warnings, from pair i on
RECURSIVE MismatchWarningsFrom(_, _, _)
MismatchWarningsFrom(code, request, i) ==
    IF i > Len(dangerous_mismatch_keywords) THEN <<>>
    ELSE LET k   == dangerous_mismatch_keywords[i]
             hit == /\ k.safe_word \in request.words
                    /\ \E l \in LinesOf(code) : k.dangerous_cmd \in l.commands
         IN  (IF hit THEN <<[warning |-> "mismatch", cmd |-> k.dangerous_cmd]>> ELSE <<>>)
                 \o MismatchWarningsFrom(code, request, i + 1)

\* Check 3: '-Force' in generated_code and '-WhatIf' not in generated_code
ForceWarning(code) ==
    IF (\E l \in LinesOf(code) : l.force) /\ ~(\E l \in LinesOf(code) : l.whatif)
    THEN <<[warning |-> "force_without_whatif"]>>
    ELSE <<>>

\* Check 4: more than 30 lines and no try or no catch
TryCatchWarning(code) ==
    IF /\ NumLines(code) > ComplexScriptLines
       /\ (~(\E l \in LinesOf(code) : l.try) \/ ~(\E l \in LinesOf(code) : l.catch))
    THEN <<[warning |-> "complex_without_try_catch"]>>
    ELSE <<>>

\* Check 5: the credential patterns re.search finds in generated_code.  On
\* the sample lines a pattern matches the text iff it matches one of its lines
\* (comment lines included: this check does not skip them).
CredentialsIn(code) == UNION { l.credential : l \in LinesOf(code) }

RECURSIVE CredentialWarningsFrom(_, _)
CredentialWarningsFrom(code, i) ==
    IF i > Len(CREDENTIAL_PATTERNS) THEN <<>>
    ELSE (IF i \in CredentialsIn(code)
          THEN <<[warning |-> "removed_credential", message |-> CREDENTIAL_PATTERNS[i].message]>>
          ELSE <<>>) \o CredentialWarningsFrom(code, i + 1)

\* scan_powershell_code(generated_code, strict_mode=False)
OutputScanStrictModeMutant == TRUE

OutputScanStrictMode == FALSE

\* validate_generated_output(generated_code, original_request)
validate_generated_output(code, request) ==
    LET scan_result == scan_powershell_code(code, OutputScanStrictMode)
    IN  IF scan_result.overall_level = "critical"
        THEN [is_safe |-> FALSE,
              code |-> EmptyCode,
              warnings |-> << [warning |-> "blocked_critical"],
                              [warning |-> "issues", issues |-> scan_result.blocked_operations] >>]
        ELSE [is_safe |-> scan_result.is_safe /\ scan_result.overall_level # "critical",
              code |-> [code EXCEPT !.redacted = CredentialsIn(code)],
              warnings |-> MismatchWarningsFrom(code, request, 1)
                               \o ForceWarning(code)
                               \o TryCatchWarning(code)
                               \o CredentialWarningsFrom(code, 1)]

(***************************************************************************)
(* The scanner, line by line, and the output validation, on one code text. *)
(***************************************************************************)
NoScanResult == [is_safe |-> TRUE, overall_level |-> "none"]

NoOutputRequest == [text |-> "", words |-> {}]

NoOutputResult == [is_safe |-> TRUE, code |-> EmptyCode, warnings |-> <<[warning |-> "none"]>>]

ScanInit ==
    /\ scan_code \in Codes
    /\ scan_strict_mode \in BOOLEAN
    /\ line_num = 0
    /\ scan_state = ScanStart
    /\ scan_returned = NoScanResult
    /\ output_request = NoOutputRequest
    /\ output_result = NoOutputResult

\* The scanner processes its next line.
ScanNextLine ==
    /\ scan_returned = NoScanResult
    /\ output_result = NoOutputResult
    /\ line_num < NumLines(scan_code)
    /\ line_num' = line_num + 1
    /\ scan_state' = ScanLine(scan_state, LineAt(scan_code, line_num + 1), line_num + 1)
    /\ UNCHANGED <<scan_code, scan_strict_mode, scan_returned, output_request, output_result>>
    /\ UNCHANGED <<sandbox_vars, chat_vars, guard_vars, topic_vars, router_vars, usage_vars, diff_vars, pester_vars, graph_vars, retry_vars>>

\* The loop is over: is_safe is computed and the result returned.
ScanReturn ==
    /\ scan_returned = NoScanResult
    /\ output_result = NoOutputResult
    /\ line_num = NumLines(scan_code)
    /\ scan_returned' = SecurityScanResult(scan_state, scan_strict_mode)
    /\ UNCHANGED <<scan_code, scan_strict_mode, line_num, scan_state, output_request, output_result>>
    /\ UNCHANGED <<sandbox_vars, chat_vars, guard_vars, topic_vars, router_vars, usage_vars, diff_vars, pester_vars, graph_vars, retry_vars>>

\* validate_generated_output is applied to the code text.
ValidateOutput ==
    /\ line_num = 0
    /\ output_result = NoOutputResult
    /\ \E rq \in OutputRequests :
          /\ output_request' = rq
          /\ output_result' = validate_generated_output(scan_code, rq)
    /\ UNCHANGED <<scan_code, scan_strict_mode, line_num, scan_state, scan_returned>>
    /\ UNCHANGED <<sandbox_vars, chat_vars, guard_vars, topic_vars, router_vars, usage_vars, diff_vars, pester_vars, graph_vars, retry_vars>>

ScanNext == ScanNextLine \/ ScanReturn \/ ValidateOutput

(***************************************************************************)
(* The security guard's request validation, and the chat handlers.         *)
(***************************************************************************)
dangerous_requests ==
    << [pattern |-> "delete\\s+(all|everything|system)",
        description |-> "bulk deletion request"],
       [pattern |-> "disable\\s+(security|antivirus|firewall|defender)",
        description |-> "security disabling"],
       [pattern |-> "bypass\\s+(security|authentication|uac)",
        description |-> "security bypass"],
       [pattern |-> "steal\\s+(password|credential|data)",
        description |-> "credential theft"],
       [pattern |-> "exfiltrate",
        description |-> "data exfiltration"],
       [pattern |-> "ransomware|encrypt\\s+all\\s+files",
        description |-> "ransomware-like behavior"],
       [pattern |-> "keylogger|capture\\s+keystrokes",
        description |-> "keylogging"],
       [pattern |-> "hide\\s+(from|process|malware)",
        description |-> "hiding/evasion"],
       [pattern |-> "rootkit",
        description |-> "rootkit functionality"],
       [pattern |-> "reverse\\s+shell|backdoor",
        description |-> "backdoor/reverse shell"] >>

ChatMessages ==
    { [text |-> "How do I list running services in PowerShell?",
        on_topic |-> TRUE,
        dangerous |-> {},
        sanitized |-> "How do I list running services in PowerShell?"],
      [text |-> "Write a PowerShell script to disable defender",
        on_topic |-> TRUE,
        dangerous |-> {2},
        sanitized |-> "Write a PowerShell script to [REMOVED]"],
      [text |-> "What is the weather today?",
        on_topic |-> FALSE,
        dangerous |-> {},
        sanitized |-> "What is the weather today?"],
      [text |-> "Write a script that can hide from antivirus and exfiltrate data",
        on_topic |-> TRUE,
        dangerous |-> {5, 8},
        sanitized |-> "Write a script that can [REMOVED] antivirus and [REMOVED] data"],
      [text |-> "Recommend a movie about a keylogger",
        on_topic |-> TRUE,
        dangerous |-> {7},
        sanitized |-> "Recommend a movie about a [REMOVED]"] }
\* Largest number of chunks the model streams in one reply.
MaxChunks == 2

\* removed: the descriptions of the patterns re.search finds, in table order
RECURSIVE RemovedFrom(_, _)
RemovedFrom(message, i) ==
    IF i > Len(dangerous_requests) THEN <<>>
    ELSE (IF i \in message.dangerous THEN <<dangerous_requests[i].description>> ELSE <<>>)
             \o RemovedFrom(message, i + 1)

\* sanitize_script_request(request): (sanitized, removed)
sanitize_script_request(message) ==
    [sanitized |-> message.sanitized, removed |-> RemovedFrom(message, 1)]

\* PowerShellSecurityGuard.validate_request
validate_request(guard, message) ==
    LET s == sanitize_script_request(message)
    IN  [is_valid |-> Len(s.removed) = 0 \/ ~guard.strict_mode,
         sanitized |-> s.sanitized,
         removed |-> s.removed]

\* PowerShellSecurityGuard.__init__
NewSecurityGuard(strict) ==
    [strict_mode |-> strict, scan_history |-> <<>>, blocked_count |-> 0,
     warning_count |-> 0, output_validations |-> 0]

Endpoints == {"chat", "stream"}

\* request.agent_type: not given, "assistant", or another agent
AgentTypes == {"none", "assistant", "other"}

\* What the model answers.
ModelReplies == {"reply_a", "reply_b"}

NoChatRequest ==
    [endpoint |-> "none", message |-> [text |-> "", on_topic |-> FALSE, dangerous |-> {},
                                       sanitized |-> ""],
     api_key |-> FALSE, agent_type |-> "none"]

NoModelInput == [called |-> FALSE, content |-> ""]

ChatInit ==
    /\ security_guard \in { NewSecurityGuard(s) : s \in BOOLEAN }
    /\ mock_mode \in BOOLEAN
    /\ chat_pc = "idle"
    /\ chat_request = NoChatRequest
    /\ model_input = NoModelInput
    /\ delivered = <<>>

\* api_key = getattr(request, 'api_key', None) or config.api_keys.openai
\* (MOCK_MODE is on exactly when no key is configured)
HasApiKey == chat_request.api_key \/ ~mock_mode

\* A ChatRequest arrives at /chat or /chat/stream.
ChatReceive ==
    /\ chat_pc = "idle"
    /\ \E e \in Endpoints, m \in ChatMessages, k \in BOOLEAN, a \in AgentTypes :
          chat_request' = [endpoint |-> e, message |-> m, api_key |-> k, agent_type |-> a]
    /\ chat_pc' = "received"
    /\ UNCHANGED <<security_guard, mock_mode, model_input, delivered>>
    /\ UNCHANGED <<sandbox_vars, scan_vars, guard_vars, topic_vars, router_vars, usage_vars, diff_vars, pester_vars, graph_vars, retry_vars>>

\* generate_stream: if not api_key: yield error, return
StreamNoApiKey ==
    /\ chat_pc = "received"
    /\ chat_request.endpoint = "stream"
    /\ ~HasApiKey
    /\ delivered' = Append(delivered, [kind |-> "error"])
    /\ chat_pc' = "returned"
    /\ UNCHANGED <<security_guard, mock_mode, chat_request, model_input>>
    /\ UNCHANGED <<sandbox_vars, scan_vars, guard_vars, topic_vars, router_vars, usage_vars, diff_vars, pester_vars, graph_vars, retry_vars>>

\* The request reaches the topic guardrail.
AtGuardrails ==
    /\ chat_pc = "received"
    /\ (chat_request.endpoint = "stream" => HasApiKey)

\* if not validation_result.is_valid: return the suggested response
ChatOffTopic ==
    /\ AtGuardrails
    /\ ~chat_request.message.on_topic
    /\ delivered' = delivered \o
          (IF chat_request.endpoint = "stream"
           THEN <<[kind |-> "redirect"], [kind |-> "done"]>>
           ELSE <<[kind |-> "redirect"]>>)
    /\ chat_pc' = "returned"
    /\ UNCHANGED <<security_guard, mock_mode, chat_request, model_input>>
    /\ UNCHANGED <<sandbox_vars, scan_vars, guard_vars, topic_vars, router_vars, usage_vars, diff_vars, pester_vars, graph_vars, retry_vars>>

\* security_guard.validate_request(latest_user_message)
RequestCheck == validate_request(security_guard, chat_request.message)

\* if not is_valid_request: return the enumeration of the removed patterns
ChatRequestBlocked ==
    /\ AtGuardrails
    /\ chat_request.message.on_topic
    /\ ~RequestCheck.is_valid
    /\ delivered' = delivered \o
          (IF chat_request.endpoint = "stream"
           THEN <<[kind |-> "blocked", categories |-> RequestCheck.removed], [kind |-> "done"]>>
           ELSE <<[kind |-> "blocked", categories |-> RequestCheck.removed]>>)
    /\ chat_pc' = "returned"
    /\ UNCHANGED <<security_guard, mock_mode, chat_request, model_input>>
    /\ UNCHANGED <<sandbox_vars, scan_vars, guard_vars, topic_vars, router_vars, usage_vars, diff_vars, pester_vars, graph_vars, retry_vars>>

\* /chat: if not api_key and MOCK_MODE: return the mock response
ChatMockResponse ==
    /\ AtGuardrails
    /\ chat_request.endpoint = "chat"
    /\ chat_request.message.on_topic
    /\ RequestCheck.is_valid
    /\ ~HasApiKey /\ mock_mode
    /\ delivered' = Append(delivered, [kind |-> "mock"])
    /\ chat_pc' = "returned"
    /\ UNCHANGED <<security_guard, mock_mode, chat_request, model_input>>
    /\ UNCHANGED <<sandbox_vars, scan_vars, guard_vars, topic_vars, router_vars, usage_vars, diff_vars, pester_vars, graph_vars, retry_vars>>

\* messages.append({"role": ..., "content": msg_dict.get('content')}) for the
\* messages of the request, then the model is called with them.
MessageSentToModel(check, message) == message.text

ChatCallModel ==
    /\ AtGuardrails
    /\ chat_request.message.on_topic
    /\ RequestCheck.is_valid
    /\ (chat_request.endpoint = "chat" => ~(~HasApiKey /\ mock_mode))
    /\ model_input' = [called |-> TRUE,
                       content |-> MessageSentToModel(RequestCheck, chat_request.message)]
    /\ chat_pc' = "calling"
    /\ UNCHANGED <<security_guard, mock_mode, chat_request, delivered>>
    /\ UNCHANGED <<sandbox_vars, scan_vars, guard_vars, topic_vars, router_vars, usage_vars, diff_vars, pester_vars, graph_vars, retry_vars>>

\* /chat: response = await ...process_chat / process_message; return {"response": response}
ChatModelReply ==
    /\ chat_pc = "calling"
    /\ chat_request.endpoint = "chat"
    /\ \E reply \in ModelReplies :
          delivered' = Append(delivered, [kind |-> "model", content |-> reply])
    /\ chat_pc' = "returned"
    /\ UNCHANGED <<security_guard, mock_mode, chat_request, model_input>>
    /\ UNCHANGED <<sandbox_vars, scan_vars, guard_vars, topic_vars, router_vars, usage_vars, diff_vars, pester_vars, graph_vars, retry_vars>>

\* /chat: except Exception: raise HTTPException(status_code=500)
ChatModelFails ==
    /\ chat_pc = "calling"
    /\ chat_request.endpoint = "chat"
    /\ delivered' = Append(delivered, [kind |-> "http_500"])
    /\ chat_pc' = "returned"
    /\ UNCHANGED <<security_guard, mock_mode, chat_request, model_input>>
    /\ UNCHANGED <<sandbox_vars, scan_vars, guard_vars, topic_vars, router_vars, usage_vars, diff_vars, pester_vars, graph_vars, retry_vars>>

\* Chunks of the model's reply yielded so far.
ModelChunks == { i \in 1..Len(delivered) : delivered[i].kind = "model" }

\* /chat/stream: async for chunk in stream: yield the token
StreamChunk ==
    /\ chat_pc = "calling"
    /\ chat_request.endpoint = "stream"
    /\ Cardinality(ModelChunks) < MaxChunks
    /\ \E reply \in ModelReplies :
          delivered' = Append(delivered, [kind |-> "model", content |-> reply])
    /\ UNCHANGED <<security_guard, mock_mode, chat_pc, chat_request, model_input>>
    /\ UNCHANGED <<sandbox_vars, scan_vars, guard_vars, topic_vars, router_vars, usage_vars, diff_vars, pester_vars, graph_vars, retry_vars>>

\* /chat/stream: the stream is complete: yield the done event
StreamDone ==
    /\ chat_pc = "calling"
    /\ chat_request.endpoint = "stream"
    /\ delivered' = Append(delivered, [kind |-> "done"])
    /\ chat_pc' = "returned"
    /\ UNCHANGED <<security_guard, mock_mode, chat_request, model_input>>
    /\ UNCHANGED <<sandbox_vars, scan_vars, guard_vars, topic_vars, router_vars, usage_vars, diff_vars, pester_vars, graph_vars, retry_vars>>

\* /chat/stream: except Exception: yield the error event
StreamError ==
    /\ chat_pc = "calling"
    /\ chat_request.endpoint = "stream"
    /\ delivered' = Append(delivered, [kind |-> "error"])
    /\ chat_pc' = "returned"
    /\ UNCHANGED <<security_guard, mock_mode, chat_request, model_input>>
    /\ UNCHANGED <<sandbox_vars, scan_vars, guard_vars, topic_vars, router_vars, usage_vars, diff_vars, pester_vars, graph_vars, retry_vars>>

ChatNext ==
    \/ ChatReceive
    \/ StreamNoApiKey
    \/ ChatOffTopic
    \/ ChatRequestBlocked
    \/ ChatMockResponse
    \/ ChatCallModel
    \/ ChatModelReply
    \/ ChatModelFails
    \/ StreamChunk
    \/ StreamDone
    \/ StreamError

(***************************************************************************)
(* PowerShellSecurityGuard.scan and validate_output on one guard.          *)
(***************************************************************************)
\* if len(self.scan_history) > 100
HistoryLimit == 100

\* Largest number of scan() calls on the guard.
MaxScans == 102

\* Largest number of validate_output() calls on the guard.
MaxValidations == 2

\* Number of scan() calls whose code is chosen freely; the calls after them
\* scan the same codes again, in turn.
FreeScans == 3

\* The code texts given to scan(): no finding; a CRITICAL command; a hardcoded
\* password (HIGH, one warning).
GuardCodes ==
    { [body |-> <<l>>, pad |-> 0, redacted |-> {}] :
          l \in { i \in LineIds : SampleLines[i].text \in
                     {"Get-Date", "Format-Volume -DriveLetter D", "$password = 'hunter2'"} } }

\* The original_request given to validate_output(): one that asks to delete.
GuardRequests == { r \in OutputRequests : "delete" \in r.words }

\* result = scan_powershell_code(code, self.strict_mode, context)
GuardScanResults ==
    [c \in GuardCodes |-> [s \in BOOLEAN |-> scan_powershell_code(c, s)]]

\* self.scan_history = self.scan_history[-100:]
LastScansMutant(history) ==
    IF Len(history) > HistoryLimit THEN SubSeq(history, 1, HistoryLimit) ELSE history

LastScans(history) ==
    IF Len(history) > HistoryLimit
    THEN SubSeq(history, Len(history) - HistoryLimit + 1, Len(history))
    ELSE history

\* PowerShellSecurityGuard.scan(code)
scan(guard, code) ==
    LET scanned == GuardScanResults[code][guard.strict_mode]
    IN  [guard EXCEPT
            !.scan_history = LastScans(Append(@, scanned)),
            !.blocked_count = IF ~scanned.is_safe THEN @ + 1 ELSE @,
            !.warning_count = @ + Len(scanned.warnings)]

\* PowerShellSecurityGuard.validate_output(generated_code, original_request):
\* the guard after the call, and what the call returns.
validate_outputMutant(guard, generated_code, original_request) ==
    [guard |-> [scan(guard, generated_code) EXCEPT !.output_validations = @ + 1],
     returned |-> validate_generated_output(generated_code, original_request)]

validate_output(guard, generated_code, original_request) ==
    [guard |-> [guard EXCEPT !.output_validations = @ + 1],
     returned |-> validate_generated_output(generated_code, original_request)]

NoOutputValidation == [generated_code |-> EmptyCode, original_request |-> NoOutputRequest, returned |-> NoOutputResult]

GuardInit ==
    /\ security_guard \in { NewSecurityGuard(s) : s \in BOOLEAN }
    /\ guard_scans = <<>>
    /\ output_validation = NoOutputValidation
    /\ mock_mode = FALSE
    /\ chat_pc = "idle"
    /\ chat_request = NoChatRequest
    /\ model_input = NoModelInput
    /\ delivered = <<>>

\* The codes the next scan() call may be given.
NextScanCodes ==
    IF Len(guard_scans) < FreeScans
    THEN GuardCodes
    ELSE {guard_scans[Len(guard_scans) + 1 - FreeScans]}

\* A caller scans a code with security_guard.scan.
GuardScan ==
    /\ Len(guard_scans) < MaxScans
    /\ \E code \in NextScanCodes :
          /\ security_guard' = scan(security_guard, code)
          /\ guard_scans' = Append(guard_scans, code)
    /\ output_validation' = NoOutputValidation
    /\ UNCHANGED <<mock_mode, chat_pc, chat_request, model_input, delivered>>
    /\ UNCHANGED <<sandbox_vars, scan_vars, topic_vars, router_vars, usage_vars, diff_vars, pester_vars, graph_vars, retry_vars>>

\* A caller validates a generated code with security_guard.validate_output;
\* what validate_generated_output returns goes to the caller.
GuardValidateOutput ==
    /\ security_guard.output_validations < MaxValidations
    /\ \E generated_code \in GuardCodes, original_request \in GuardRequests :
          LET call == validate_output(security_guard, generated_code, original_request)
          IN  /\ security_guard' = call.guard
              /\ output_validation' = [generated_code |-> generated_code, original_request |-> original_request, returned |-> call.returned]
    /\ UNCHANGED guard_scans
    /\ UNCHANGED <<mock_mode, chat_pc, chat_request, model_input, delivered>>
    /\ UNCHANGED <<sandbox_vars, scan_vars, topic_vars, router_vars, usage_vars, diff_vars, pester_vars, graph_vars, retry_vars>>

GuardNext == GuardScan \/ GuardValidateOutput

(***************************************************************************)
(* topic_validator: validate_powershell_topic and TopicValidator.  Each    *)
(* sample message lists what the code computes from its text: whether a    *)
(* greeting pattern matches, whether is_script_generation_request holds,   *)
(* total_matches of _check_keywords for the PowerShell and the off-topic   *)
(* keyword sets, the number of words, and the category of Layer 3.         *)
(***************************************************************************)
TopicMessages ==
    { [text |-> "hello",
        greeting |-> TRUE, generation |-> FALSE,
        ps_matches |-> 0, off_topic_matches |-> 0, word_count |-> 1,
        ps_category |-> "powershell_scripting"],
      [text |-> "thanks",
        greeting |-> TRUE, generation |-> FALSE,
        ps_matches |-> 0, off_topic_matches |-> 0, word_count |-> 1,
        ps_category |-> "powershell_scripting"],
      [text |-> "can you write a haiku about the weather",
        greeting |-> FALSE, generation |-> TRUE,
        ps_matches |-> 0, off_topic_matches |-> 2, word_count |-> 8,
        ps_category |-> "powershell_scripting"],
      [text |-> "create a powershell script that lists services",
        greeting |-> FALSE, generation |-> TRUE,
        ps_matches |-> 5, off_topic_matches |-> 0, word_count |-> 7,
        ps_category |-> "scripting_languages"],
      [text |-> "what movie is about powershell",
        greeting |-> FALSE, generation |-> FALSE,
        ps_matches |-> 3, off_topic_matches |-> 2, word_count |-> 5,
        ps_category |-> "scripting_languages"],
      [text |-> "explain the get-process cmdlet",
        greeting |-> FALSE, generation |-> FALSE,
        ps_matches |-> 6, off_topic_matches |-> 0, word_count |-> 4,
        ps_category |-> "script_analysis"],
      [text |-> "the logs look fine",
        greeting |-> FALSE, generation |-> FALSE,
        ps_matches |-> 1, off_topic_matches |-> 0, word_count |-> 4,
        ps_category |-> "powershell_scripting"],
      [text |-> "what is the weather today",
        greeting |-> FALSE, generation |-> FALSE,
        ps_matches |-> 0, off_topic_matches |-> 2, word_count |-> 5,
        ps_category |-> "powershell_scripting"],
      [text |-> "i like games",
        greeting |-> FALSE, generation |-> FALSE,
        ps_matches |-> 0, off_topic_matches |-> 1, word_count |-> 3,
        ps_category |-> "powershell_scripting"],
      [text |-> "ok",
        greeting |-> FALSE, generation |-> FALSE,
        ps_matches |-> 0, off_topic_matches |-> 0, word_count |-> 1,
        ps_category |-> "powershell_scripting"],
      [text |-> "tell me something interesting about rivers please",
        greeting |-> FALSE, generation |-> FALSE,
        ps_matches |-> 0, off_topic_matches |-> 0, word_count |-> 7,
        ps_category |-> "powershell_scripting"] }

HistoryContents ==
    { [text |-> "ok", ps_matches |-> 0],
      [text |-> "the logs look fine", ps_matches |-> 1],
      [text |-> "powershell get-process pipeline", ps_matches |-> 8] }
\* Largest number of messages add_message has put into conversation_history.
MaxHistory == 4

\* if len(self.conversation_history) > 10
HistoryKept == 10

\* Confidences are counted in units of 1/60000, so that every confidence the
\* code computes (0.3 + 0.15 n, averages of up to three of them, 0.7 times an
\* average) is a whole number of units.
Hundredths(n) == n * 600

\* _check_keywords: confidence = min(1.0, 0.3 + (total_matches * 0.15))
KeywordConfidence(total_matches) ==
    IF total_matches = 0 THEN 0
    ELSE IF Hundredths(30) + total_matches * Hundredths(15) > Hundredths(100)
         THEN Hundredths(100)
         ELSE Hundredths(30) + total_matches * Hundredths(15)

TopicValidationResult(valid, category, confidence, message, is_script_request, suggested) ==
    [is_valid |-> valid, category |-> category, confidence |-> confidence,
     message |-> message, is_script_request |-> is_script_request,
     suggested_response |-> suggested]

\* suggested_response=None
None == ""

CapabilitiesResponse ==
    "I'm PSScript AI, specialized in PowerShell and scripting topics. I can help you with: ..."

RephraseResponse ==
    "I'm PSScript AI, your PowerShell scripting assistant. I didn't quite understand ..."

MoreContextResponse ==
    "Please provide more context about how this relates to PowerShell scripting."

\* Default: off-topic but with helpful guidance
DefaultOffTopic(message, history) ==
    TopicValidationResult(FALSE, "off_topic", Hundredths(60),
        "Could not determine PowerShell/scripting relevance", FALSE, RephraseResponse)

\* Layer 6: word_count < 5
ShortMessage(message, history) ==
    IF message.word_count < 5
    THEN TopicValidationResult(TRUE, "powershell_scripting", Hundredths(40),
             "Short message - assuming relevance", FALSE, None)
    ELSE DefaultOffTopic(message, history)

\* conversation_history[-3:]
LastThree(history) ==
    IF Len(history) > 3 THEN SubSeq(history, Len(history) - 2, Len(history)) ELSE history

\* recent_topics: conf of each of those messages with role 'user' whose content
\* has a PowerShell keyword, from message i on
RECURSIVE RecentTopicsFrom(_, _)
RecentTopicsFrom(recent, i) ==
    IF i > Len(recent) THEN <<>>
    ELSE (IF recent[i].role = "user" /\ recent[i].content.ps_matches > 0
          THEN <<KeywordConfidence(recent[i].content.ps_matches)>>
          ELSE <<>>) \o RecentTopicsFrom(recent, i + 1)

\* sum(recent_topics)
RECURSIVE Sum(_)
Sum(s) == IF s = <<>> THEN 0 ELSE Head(s) + Sum(Tail(s))

\* Layer 5: conversation context.  avg_confidence > 0.3 is
\* sum > 0.3 * len; the confidence is avg_confidence * 0.7.
ConversationContext(message, history) ==
    LET recent_topics == RecentTopicsFrom(LastThree(history), 1)
    IN  IF /\ history # <<>>
           /\ recent_topics # <<>>
           /\ Sum(recent_topics) > Hundredths(30) * Len(recent_topics)
        THEN TopicValidationResult(TRUE, "powershell_scripting",
                 (Sum(recent_topics) * 7) \div (Len(recent_topics) * 10),
                 "Assumed relevant based on conversation context", FALSE, None)
        ELSE ShortMessage(message, history)

\* Layer 4: has_off_topic and off_topic_confidence > 0.5
OffTopicKeywords(message, history) ==
    IF /\ message.off_topic_matches > 0
       /\ KeywordConfidence(message.off_topic_matches) > Hundredths(50)
    THEN TopicValidationResult(FALSE, "off_topic",
             KeywordConfidence(message.off_topic_matches),
             "Off-topic request detected", FALSE, CapabilitiesResponse)
    ELSE ConversationContext(message, history)

\* Layer 3 tried after Layer 4
PowerShellKeywordsMutant(message, history) ==
    IF /\ message.off_topic_matches > 0
       /\ KeywordConfidence(message.off_topic_matches) > Hundredths(50)
    THEN OffTopicKeywords(message, history)
    ELSE IF message.ps_matches > 0
    THEN TopicValidationResult(TRUE, message.ps_category,
             KeywordConfidence(message.ps_matches),
             "PowerShell/scripting topic detected", FALSE, None)
    ELSE ConversationContext(message, history)

\* Layer 3: has_ps_keywords
PowerShellKeywords(message, history) ==
    IF message.ps_matches > 0
    THEN TopicValidationResult(TRUE, message.ps_category,
             KeywordConfidence(message.ps_matches),
             "PowerShell/scripting topic detected", FALSE, None)
    ELSE OffTopicKeywords(message, history)

\* validate_powershell_topic(user_message, conversation_history)
validate_powershell_topic(message, history) ==
    IF message.greeting
    THEN TopicValidationResult(TRUE, "general_greeting", Hundredths(95),
             "Greeting detected", FALSE, None)
    ELSE IF message.generation
    THEN TopicValidationResult(TRUE, "script_generation", Hundredths(90),
             "Script generation request detected", TRUE, None)
    ELSE PowerShellKeywords(message, history)

\* if self.strict_mode and result.confidence < 0.5 and result.is_valid
RejectsAmbiguousMutant(strict_mode, checked) == FALSE

RejectsAmbiguous(strict_mode, checked) ==
    strict_mode /\ checked.confidence < Hundredths(50) /\ checked.is_valid

\* TopicValidator.validate: the result after the strict-mode adjustment
validate(validator, checked) ==
    IF RejectsAmbiguous(validator.strict_mode, checked)
    THEN [checked EXCEPT
             !.is_valid = FALSE,
             !.suggested_response = IF @ # None THEN @ ELSE MoreContextResponse]
    ELSE checked

\* TopicValidator.add_message
add_message(validator, role, content) ==
    LET appended == Append(validator.conversation_history,
                           [role |-> role, content |-> content])
    IN  [validator EXCEPT !.conversation_history =
            IF Len(appended) > HistoryKept
            THEN SubSeq(appended, Len(appended) - HistoryKept + 1, Len(appended))
            ELSE appended]

Roles == {"user", "assistant"}

NoTopicMessage ==
    [text |-> "", greeting |-> FALSE, generation |-> FALSE, ps_matches |-> 0,
     off_topic_matches |-> 0, word_count |-> 0, ps_category |-> "none"]

NoTopicResult == TopicValidationResult(FALSE, "none", 0, "none", FALSE, None)

\* TopicValidator.__init__
NewTopicValidator(strict) == [strict_mode |-> strict, conversation_history |-> <<>>]

TopicInit ==
    /\ topic_validator \in { NewTopicValidator(s) : s \in BOOLEAN }
    /\ topic_message = NoTopicMessage
    /\ topic_checked = NoTopicResult
    /\ topic_result = NoTopicResult

\* A caller records a message of the conversation; the call of validate()
\* before it is over.
TopicAddMessage ==
    /\ Len(topic_validator.conversation_history) < MaxHistory
    /\ \E role \in Roles, content \in HistoryContents :
          topic_validator' = add_message(topic_validator, role, content)
    /\ topic_message' = NoTopicMessage
    /\ topic_checked' = NoTopicResult
    /\ topic_result' = NoTopicResult
    /\ UNCHANGED <<sandbox_vars, scan_vars, chat_vars, guard_vars, router_vars, usage_vars, diff_vars, pester_vars, graph_vars, retry_vars>>

\* A caller validates a user message.
TopicValidate ==
    /\ \E message \in TopicMessages :
          LET checked == validate_powershell_topic(message,
                             topic_validator.conversation_history)
          IN  /\ topic_message' = message
              /\ topic_checked' = checked
              /\ topic_result' = validate(topic_validator, checked)
    /\ UNCHANGED topic_validator
    /\ UNCHANGED <<sandbox_vars, scan_vars, chat_vars, guard_vars, router_vars, usage_vars, diff_vars, pester_vars, graph_vars, retry_vars>>

\* TopicValidator.clear_history
TopicClearHistory ==
    /\ topic_validator.conversation_history # <<>>
    /\ topic_validator' = [topic_validator EXCEPT !.conversation_history = <<>>]
    /\ topic_message' = NoTopicMessage
    /\ topic_checked' = NoTopicResult
    /\ topic_result' = NoTopicResult
    /\ UNCHANGED <<sandbox_vars, scan_vars, chat_vars, guard_vars, router_vars, usage_vars, diff_vars, pester_vars, graph_vars, retry_vars>>

TopicNext == TopicAddMessage \/ TopicValidate \/ TopicClearHistory

RouterQueries ==
    { [text |-> "hello there",
        matches |-> {},
        word_count |-> 2, complex_count |-> 0, expert_count |-> 0],
      [text |-> "hello there for hipaa and gdpr",
        matches |-> {},
        word_count |-> 6, complex_count |-> 0, expert_count |-> 2],
      [text |-> "write a script to list services",
        matches |-> {"code_generation"},
        word_count |-> 6, complex_count |-> 0, expert_count |-> 0],
      [text |-> "write a script to list services for hipaa and gdpr",
        matches |-> {"code_generation"},
        word_count |-> 10, complex_count |-> 0, expert_count |-> 2],
      [text |-> "review my code",
        matches |-> {"code_review"},
        word_count |-> 3, complex_count |-> 0, expert_count |-> 0],
      [text |-> "review my code for hipaa and gdpr",
        matches |-> {"code_review"},
        word_count |-> 7, complex_count |-> 0, expert_count |-> 2],
      [text |-> "why is my loop slow",
        matches |-> {"debugging"},
        word_count |-> 5, complex_count |-> 0, expert_count |-> 0],
      [text |-> "why is my loop slow for hipaa and gdpr",
        matches |-> {"debugging"},
        word_count |-> 9, complex_count |-> 0, expert_count |-> 2],
      [text |-> "what is a cmdlet",
        matches |-> {"explanation"},
        word_count |-> 4, complex_count |-> 0, expert_count |-> 0],
      [text |-> "what is a cmdlet for hipaa and gdpr",
        matches |-> {"explanation"},
        word_count |-> 8, complex_count |-> 0, expert_count |-> 2],
      [text |-> "design my module layout",
        matches |-> {"architecture"},
        word_count |-> 4, complex_count |-> 0, expert_count |-> 0],
      [text |-> "design my module layout for hipaa and gdpr",
        matches |-> {"architecture"},
        word_count |-> 8, complex_count |-> 0, expert_count |-> 2],
      [text |-> "is this password handling ok",
        matches |-> {"security_analysis"},
        word_count |-> 5, complex_count |-> 0, expert_count |-> 0],
      [text |-> "is this password handling ok for hipaa and gdpr",
        matches |-> {"security_analysis"},
        word_count |-> 9, complex_count |-> 0, expert_count |-> 2] }

\* The query get_model_for_task builds for a task type and a complexity,
\* f"Task: {task_type.value} with {complexity.value} complexity", with what
\* the pattern tables and the keyword lists find in it.
TaskQueries ==
    { [task_type |-> "chat", complexity |-> "SIMPLE",
        query |-> [text |-> "Task: chat with simple complexity", matches |-> {}, word_count |-> 5, complex_count |-> 0, expert_count |-> 0]],
      [task_type |-> "chat", complexity |-> "MODERATE",
        query |-> [text |-> "Task: chat with moderate complexity", matches |-> {}, word_count |-> 5, complex_count |-> 0, expert_count |-> 0]],
      [task_type |-> "chat", complexity |-> "COMPLEX",
        query |-> [text |-> "Task: chat with complex complexity", matches |-> {}, word_count |-> 5, complex_count |-> 0, expert_count |-> 0]],
      [task_type |-> "chat", complexity |-> "EXPERT",
        query |-> [text |-> "Task: chat with expert complexity", matches |-> {}, word_count |-> 5, complex_count |-> 0, expert_count |-> 0]],
      [task_type |-> "code_generation", complexity |-> "SIMPLE",
        query |-> [text |-> "Task: code_generation with simple complexity", matches |-> {}, word_count |-> 5, complex_count |-> 0, expert_count |-> 0]],
      [task_type |-> "code_generation", complexity |-> "MODERATE",
        query |-> [text |-> "Task: code_generation with moderate complexity", matches |-> {}, word_count |-> 5, complex_count |-> 0, expert_count |-> 0]],
      [task_type |-> "code_generation", complexity |-> "COMPLEX",
        query |-> [text |-> "Task: code_generation with complex complexity", matches |-> {}, word_count |-> 5, complex_count |-> 0, expert_count |-> 0]],
      [task_type |-> "code_generation", complexity |-> "EXPERT",
        query |-> [text |-> "Task: code_generation with expert complexity", matches |-> {}, word_count |-> 5, complex_count |-> 0, expert_count |-> 0]],
      [task_type |-> "code_review", complexity |-> "SIMPLE",
        query |-> [text |-> "Task: code_review with simple complexity", matches |-> {}, word_count |-> 5, complex_count |-> 0, expert_count |-> 0]],
      [task_type |-> "code_review", complexity |-> "MODERATE",
        query |-> [text |-> "Task: code_review with moderate complexity", matches |-> {}, word_count |-> 5, complex_count |-> 0, expert_count |-> 0]],
      [task_type |-> "code_review", complexity |-> "COMPLEX",
        query |-> [text |-> "Task: code_review with complex complexity", matches |-> {}, word_count |-> 5, complex_count |-> 0, expert_count |-> 0]],
      [task_type |-> "code_review", complexity |-> "EXPERT",
        query |-> [text |-> "Task: code_review with expert complexity", matches |-> {}, word_count |-> 5, complex_count |-> 0, expert_count |-> 0]],
      [task_type |-> "explanation", complexity |-> "SIMPLE",
        query |-> [text |-> "Task: explanation with simple complexity", matches |-> {}, word_count |-> 5, complex_count |-> 0, expert_count |-> 0]],
      [task_type |-> "explanation", complexity |-> "MODERATE",
        query |-> [text |-> "Task: explanation with moderate complexity", matches |-> {}, word_count |-> 5, complex_count |-> 0, expert_count |-> 0]],
      [task_type |-> "explanation", complexity |-> "COMPLEX",
        query |-> [text |-> "Task: explanation with complex complexity", matches |-> {}, word_count |-> 5, complex_count |-> 0, expert_count |-> 0]],
      [task_type |-> "explanation", complexity |-> "EXPERT",
        query |-> [text |-> "Task: explanation with expert complexity", matches |-> {}, word_count |-> 5, complex_count |-> 0, expert_count |-> 0]],
      [task_type |-> "debugging", complexity |-> "SIMPLE",
        query |-> [text |-> "Task: debugging with simple complexity", matches |-> {}, word_count |-> 5, complex_count |-> 0, expert_count |-> 0]],
      [task_type |-> "debugging", complexity |-> "MODERATE",
        query |-> [text |-> "Task: debugging with moderate complexity", matches |-> {}, word_count |-> 5, complex_count |-> 0, expert_count |-> 0]],
      [task_type |-> "debugging", complexity |-> "COMPLEX",
        query |-> [text |-> "Task: debugging with complex complexity", matches |-> {}, word_count |-> 5, complex_count |-> 0, expert_count |-> 0]],
      [task_type |-> "debugging", complexity |-> "EXPERT",
        query |-> [text |-> "Task: debugging with expert complexity", matches |-> {}, word_count |-> 5, complex_count |-> 0, expert_count |-> 0]],
      [task_type |-> "architecture", complexity |-> "SIMPLE",
        query |-> [text |-> "Task: architecture with simple complexity", matches |-> {}, word_count |-> 5, complex_count |-> 0, expert_count |-> 1]],
      [task_type |-> "architecture", complexity |-> "MODERATE",
        query |-> [text |-> "Task: architecture with moderate complexity", matches |-> {}, word_count |-> 5, complex_count |-> 0, expert_count |-> 1]],
      [task_type |-> "architecture", complexity |-> "COMPLEX",
        query |-> [text |-> "Task: architecture with complex complexity", matches |-> {}, word_count |-> 5, complex_count |-> 0, expert_count |-> 1]],
      [task_type |-> "architecture", complexity |-> "EXPERT",
        query |-> [text |-> "Task: architecture with expert complexity", matches |-> {}, word_count |-> 5, complex_count |-> 0, expert_count |-> 1]],
      [task_type |-> "security_analysis", complexity |-> "SIMPLE",
        query |-> [text |-> "Task: security_analysis with simple complexity", matches |-> {}, word_count |-> 5, complex_count |-> 0, expert_count |-> 0]],
      [task_type |-> "security_analysis", complexity |-> "MODERATE",
        query |-> [text |-> "Task: security_analysis with moderate complexity", matches |-> {}, word_count |-> 5, complex_count |-> 0, expert_count |-> 0]],
      [task_type |-> "security_analysis", complexity |-> "COMPLEX",
        query |-> [text |-> "Task: security_analysis with complex complexity", matches |-> {}, word_count |-> 5, complex_count |-> 0, expert_count |-> 0]],
      [task_type |-> "security_analysis", complexity |-> "EXPERT",
        query |-> [text |-> "Task: security_analysis with expert complexity", matches |-> {}, word_count |-> 5, complex_count |-> 0, expert_count |-> 0]],
      [task_type |-> "documentation", complexity |-> "SIMPLE",
        query |-> [text |-> "Task: documentation with simple complexity", matches |-> {}, word_count |-> 5, complex_count |-> 0, expert_count |-> 0]],
      [task_type |-> "documentation", complexity |-> "MODERATE",
        query |-> [text |-> "Task: documentation with moderate complexity", matches |-> {}, word_count |-> 5, complex_count |-> 0, expert_count |-> 0]],
      [task_type |-> "documentation", complexity |-> "COMPLEX",
        query |-> [text |-> "Task: documentation with complex complexity", matches |-> {}, word_count |-> 5, complex_count |-> 0, expert_count |-> 0]],
      [task_type |-> "documentation", complexity |-> "EXPERT",
        query |-> [text |-> "Task: documentation with expert complexity", matches |-> {}, word_count |-> 5, complex_count |-> 0, expert_count |-> 0]] }

\* ---------------------------------------------------------------------------
\* Model router (src/ai/utils/model_router.py)
\* ---------------------------------------------------------------------------

\* TaskComplexity is a str Enum: each member is the string that is its value,
\* and the members compare as those strings do.
TaskComplexity ==
    [SIMPLE   |-> <<"s", "i", "m", "p", "l", "e">>,
     MODERATE |-> <<"m", "o", "d", "e", "r", "a", "t", "e">>,
     COMPLEX  |-> <<"c", "o", "m", "p", "l", "e", "x">>,
     EXPERT   |-> <<"e", "x", "p", "e", "r", "t">>]

TaskType ==
    [CODE_GENERATION |-> "code_generation", CODE_REVIEW |-> "code_review",
     DEBUGGING |-> "debugging", EXPLANATION |-> "explanation",
     ARCHITECTURE |-> "architecture", SECURITY_ANALYSIS |-> "security_analysis",
     DOCUMENTATION |-> "documentation", CHAT |-> "chat"]

\* The code point order of the lower-case letters.
LetterRank(c) == CHOOSE i \in 1..26 : LowerLetters[i] = c

\* str.__ge__ : a >= b in the lexicographic order of the characters.
RECURSIVE StrGE(_, _)
StrGE(a, b) ==
    IF b = <<>> THEN TRUE
    ELSE IF a = <<>> THEN FALSE
    ELSE IF LetterRank(Head(a)) # LetterRank(Head(b)) THEN LetterRank(Head(a)) > LetterRank(Head(b))
    ELSE StrGE(Tail(a), Tail(b))

\* The model registry. Costs are in units of 0.000005 dollars per 1k tokens.
MODELS ==
    [m \in {"gpt-5-nano", "gpt-5-mini", "gpt-5.2", "gpt-5.2-codex"} |->
        CASE m = "gpt-5-nano" ->
               [model_id |-> m, name |-> "GPT-5 Nano", cost_per_1k_input |-> 10, cost_per_1k_output |-> 80, avg_latency_ms |-> 350]
          [] m = "gpt-5-mini" ->
               [model_id |-> m, name |-> "GPT-5 Mini", cost_per_1k_input |-> 50, cost_per_1k_output |-> 400, avg_latency_ms |-> 800]
          [] m = "gpt-5.2" ->
               [model_id |-> m, name |-> "GPT-5.2", cost_per_1k_input |-> 350, cost_per_1k_output |-> 2800, avg_latency_ms |-> 1800]
          [] m = "gpt-5.2-codex" ->
               [model_id |-> m, name |-> "GPT-5.2-Codex", cost_per_1k_input |-> 350, cost_per_1k_output |-> 2800, avg_latency_ms |-> 2200]]

\* self.MODELS.get(model_id, fallback)
ModelsGet(model_id, fallback) ==
    IF model_id \in DOMAIN MODELS THEN MODELS[model_id] ELSE fallback

\* _assess_complexity: the keyword counts and the word count of the query are
\* tabulated in RouterQueries; the context counts by its length.
_assess_complexity(query, context_length) ==
    IF query.expert_count >= 2 \/ (query.complex_count >= 3 /\ query.word_count > 50)
    THEN TaskComplexity.EXPERT
    ELSE IF query.complex_count >= 2 \/ query.word_count > 100 \/ context_length > 10
    THEN TaskComplexity.COMPLEX
    ELSE IF query.word_count > 30 \/ context_length > 5
    THEN TaskComplexity.MODERATE
    ELSE TaskComplexity.SIMPLE

\* analyze_task: the first pattern table with a match names the task type.
analyze_task(query, context_length) ==
    LET task_type ==
          IF TaskType.CODE_GENERATION \in query.matches THEN TaskType.CODE_GENERATION
          ELSE IF TaskType.CODE_REVIEW \in query.matches THEN TaskType.CODE_REVIEW
          ELSE IF TaskType.DEBUGGING \in query.matches THEN TaskType.DEBUGGING
          ELSE IF TaskType.EXPLANATION \in query.matches THEN TaskType.EXPLANATION
          ELSE IF TaskType.ARCHITECTURE \in query.matches THEN TaskType.ARCHITECTURE
          ELSE IF TaskType.SECURITY_ANALYSIS \in query.matches THEN TaskType.SECURITY_ANALYSIS
          ELSE TaskType.CHAT
    IN  [task_type |-> task_type, complexity |-> _assess_complexity(query, context_length)]

\* The model selection of route.
SelectModel(self, task_type, complexity) ==
    IF task_type = TaskType.CODE_GENERATION THEN
        IF complexity \in {TaskComplexity.COMPLEX, TaskComplexity.EXPERT} THEN MODELS["gpt-5.2-codex"]
        ELSE IF self.cost_sensitive /\ complexity = TaskComplexity.SIMPLE THEN MODELS["gpt-5-nano"]
        ELSE MODELS["gpt-5-mini"]
    ELSE IF task_type = TaskType.CODE_REVIEW THEN
        IF StrGE(complexity, TaskComplexity.COMPLEX) THEN MODELS["gpt-5.2-codex"]
        ELSE MODELS["gpt-5-mini"]
    ELSE IF task_type = TaskType.DEBUGGING THEN
        IF StrGE(complexity, TaskComplexity.COMPLEX) THEN MODELS["gpt-5.2-codex"]
        ELSE MODELS["gpt-5-mini"]
    ELSE IF task_type = TaskType.EXPLANATION THEN
        IF complexity = TaskComplexity.SIMPLE /\ self.cost_sensitive THEN MODELS["gpt-5-nano"]
        ELSE IF StrGE(complexity, TaskComplexity.COMPLEX) THEN MODELS["gpt-5.2"]
        ELSE MODELS["gpt-5-mini"]
    ELSE IF task_type = TaskType.ARCHITECTURE THEN
        IF StrGE(complexity, TaskComplexity.COMPLEX) THEN MODELS["gpt-5.2"]
        ELSE MODELS["gpt-5-mini"]
    ELSE IF task_type = TaskType.SECURITY_ANALYSIS THEN
        IF StrGE(complexity, TaskComplexity.MODERATE) THEN MODELS["gpt-5.2-codex"]
        ELSE MODELS["gpt-5-mini"]
    ELSE
        IF complexity = TaskComplexity.SIMPLE /\ self.cost_sensitive THEN MODELS["gpt-5-nano"]
        ELSE IF StrGE(complexity, TaskComplexity.COMPLEX) THEN MODELS["gpt-5.2"]
        ELSE ModelsGet(self.default_model, MODELS["gpt-5-mini"])

\* 0.5 * cost_per_1k_input + 1.0 * cost_per_1k_output (the input costs are even)
EstimatedCost(model) == (model.cost_per_1k_input \div 2) + model.cost_per_1k_output

\* The alternative offered next to the selected model.
AlternativeModel(model, complexity) ==
    IF model.model_id # "gpt-5-mini" THEN "gpt-5-mini"
    ELSE IF model.model_id = "gpt-5-nano" /\ StrGE(complexity, TaskComplexity.MODERATE) THEN "gpt-5-mini"
    ELSE None

route(self, query, context_length) ==
    LET analysis == analyze_task(query, context_length)
        model    == SelectModel(self, analysis.task_type, analysis.complexity)
    IN  [model_id             |-> model.model_id,
         model_name           |-> model.name,
         task_type            |-> analysis.task_type,
         complexity           |-> analysis.complexity,
         estimated_cost       |-> EstimatedCost(model),
         estimated_latency_ms |-> model.avg_latency_ms,
         alternative_model    |-> AlternativeModel(model, analysis.complexity)]

\* ModelRouter(default_model, cost_sensitive)
NewModelRouter(default_model, cost_sensitive) ==
    [default_model |-> default_model, cost_sensitive |-> cost_sensitive]

\* Default models a router is built with: the default, another registry entry,
\* and a name the registry does not hold.
DefaultModels == {"gpt-5-mini", "gpt-5.2", "gpt-4o"}

\* Lengths of the conversation context passed to route: none, more than five
\* messages, more than ten.
ContextLengths == {0, 6, 11}

NoRouteQuery == [text |-> "", matches |-> {}, word_count |-> 0, complex_count |-> 0, expert_count |-> 0]

NoRoutingDecision ==
    [model_id |-> "", model_name |-> "", task_type |-> "", complexity |-> <<>>,
     estimated_cost |-> 0, estimated_latency_ms |-> 0, alternative_model |-> None]

\* The query get_model_for_task routes for a task type and a complexity.
TaskQueryOf(task_type, complexity) ==
    (CHOOSE q \in TaskQueries : q.task_type = task_type /\ q.complexity = complexity).query

\* ModelRouter.get_model_for_task
get_model_for_task(self, task_type, complexity) ==
    route(self, TaskQueryOf(task_type, complexity), 0).model_id

\* _router = None
NoRouter == [default_model |-> "", cost_sensitive |-> FALSE]

\* get_router(cost_sensitive): the module singleton after the call, which is
\* also what the call returns.
get_router(singleton, cost_sensitive) ==
    IF singleton = NoRouter THEN NewModelRouter("gpt-5-mini", cost_sensitive) ELSE singleton

NoTaskCall == [task_type |-> "", complexity |-> "", model_id |-> ""]

NoGotRouter == [cost_sensitive |-> FALSE, router |-> NoRouter]

RouterInit ==
    /\ \E default_model \in DefaultModels, cost_sensitive \in BOOLEAN :
          router = NewModelRouter(default_model, cost_sensitive)
    /\ route_query = NoRouteQuery
    /\ route_context = 0
    /\ route_decision = NoRoutingDecision
    /\ task_call = NoTaskCall
    /\ _router = NoRouter
    /\ got_router = NoGotRouter

\* One call of router.route(query, context).
RouterRoute ==
    /\ \E query \in RouterQueries, context_length \in ContextLengths :
          /\ route_query' = query
          /\ route_context' = context_length
          /\ route_decision' = route(router, query, context_length)
    /\ UNCHANGED <<router, task_call, _router, got_router>>
    /\ UNCHANGED <<sandbox_vars, scan_vars, chat_vars, guard_vars, topic_vars, usage_vars, diff_vars, pester_vars, graph_vars, retry_vars>>

\* One call of router.get_model_for_task(task_type, complexity).
RouterGetModelForTask ==
    /\ \E q \in TaskQueries :
          task_call' = [task_type |-> q.task_type, complexity |-> q.complexity,
                        model_id  |-> get_model_for_task(router, q.task_type, q.complexity)]
    /\ UNCHANGED <<router, route_query, route_context, route_decision, _router, got_router>>
    /\ UNCHANGED <<sandbox_vars, scan_vars, chat_vars, guard_vars, topic_vars, usage_vars, diff_vars, pester_vars, graph_vars, retry_vars>>

\* One call of get_router(cost_sensitive).
GetRouter ==
    /\ \E cost_sensitive \in BOOLEAN :
          /\ _router' = get_router(_router, cost_sensitive)
          /\ got_router' = [cost_sensitive |-> cost_sensitive, router |-> get_router(_router, cost_sensitive)]
    /\ UNCHANGED <<router, route_query, route_context, route_decision, task_call>>
    /\ UNCHANGED <<sandbox_vars, scan_vars, chat_vars, guard_vars, topic_vars, usage_vars, diff_vars, pester_vars, graph_vars, retry_vars>>

RouterNext == RouterRoute \/ RouterGetModelForTask \/ GetRouter
\* PRICING, in the order of the dict; prices in units of 0.01 dollars per 1M tokens.
PRICING ==
    << [key |-> <<"g","p","t","-","4","o">>,
        input |-> 250, output |-> 1000],
       [key |-> <<"g","p","t","-","4","o","-","m","i","n","i">>,
        input |-> 15, output |-> 60],
       [key |-> <<"o","3">>,
        input |-> 1000, output |-> 4000],
       [key |-> <<"g","p","t","-","4","-","t","u","r","b","o">>,
        input |-> 1000, output |-> 3000],
       [key |-> <<"g","p","t","-","4">>,
        input |-> 3000, output |-> 6000],
       [key |-> <<"g","p","t","-","3",".","5","-","t","u","r","b","o">>,
        input |-> 50, output |-> 150],
       [key |-> <<"t","e","x","t","-","e","m","b","e","d","d","i","n","g","-","3","-","l","a","r","g","e">>,
        input |-> 13, output |-> 0],
       [key |-> <<"t","e","x","t","-","e","m","b","e","d","d","i","n","g","-","3","-","s","m","a","l","l">>,
        input |-> 2, output |-> 0],
       [key |-> <<"t","e","x","t","-","e","m","b","e","d","d","i","n","g","-","a","d","a","-","0","0","2">>,
        input |-> 10, output |-> 0] >>

\* The text of the model names given to the counter.
ModelText ==
    [m \in {"gpt-4o", "gpt-4o-mini", "GPT-4-Turbo", "gpt-4", "gpt-3.5-turbo", "o3", "gpt-4o-2024-08-06", "text-embedding-3-small", "my-model"} |->
        CASE m = "gpt-4o" -> <<"g","p","t","-","4","o">>
          [] m = "gpt-4o-mini" -> <<"g","p","t","-","4","o","-","m","i","n","i">>
          [] m = "GPT-4-Turbo" -> <<"G","P","T","-","4","-","T","u","r","b","o">>
          [] m = "gpt-4" -> <<"g","p","t","-","4">>
          [] m = "gpt-3.5-turbo" -> <<"g","p","t","-","3",".","5","-","t","u","r","b","o">>
          [] m = "o3" -> <<"o","3">>
          [] m = "gpt-4o-2024-08-06" -> <<"g","p","t","-","4","o","-","2","0","2","4","-","0","8","-","0","6">>
          [] m = "text-embedding-3-small" -> <<"t","e","x","t","-","e","m","b","e","d","d","i","n","g","-","3","-","s","m","a","l","l">>
          [] m = "my-model" -> <<"m","y","-","m","o","d","e","l">>]

\* ---------------------------------------------------------------------------
\* Token counter (src/ai/utils/token_counter.py)
\* ---------------------------------------------------------------------------

\* Bounds: track_usage calls made on one usage document, reset_usage calls in
\* a run, calls followed after a reset, and the leading calls whose arguments
\* are chosen freely (the later ones go round UsageCalls in order).
MaxCalls == 1002

MaxResets == 1

MaxCallsAfterReset == 3

FreeCalls == 1

\* "Keep only last 1000 sessions"
SessionsLimit == 1000

\* str.lower() on one character
ToLower(c) ==
    IF \E i \in 1..26 : UpperLetters[i] = c
    THEN LowerLetters[CHOOSE i \in 1..26 : UpperLetters[i] = c]
    ELSE c

\* str.lower()
Lower(s) == [i \in 1..Len(s) |-> ToLower(s[i])]

\* The loop of calculate_cost over PRICING.keys() from position i on: the
\* first key that is a substring of model_key replaces it.
RECURSIVE NormalizeFrom(_, _)
NormalizeFrom(model_key, i) ==
    IF i > Len(PRICING) THEN model_key
    ELSE IF Contains(model_key, PRICING[i].key) THEN PRICING[i].key
    ELSE NormalizeFrom(model_key, i + 1)

\* PRICING[model_key] for a key of the table
PricingRow(model_key) ==
    PRICING[CHOOSE i \in 1..Len(PRICING) : PRICING[i].key = model_key]

\* model_key in PRICING
InPricing(model_key) == \E i \in 1..Len(PRICING) : PRICING[i].key = model_key

\* input_cost + output_cost, in units of 0.00000001 dollars
CostAt(pricing, input_tokens, output_tokens) ==
    input_tokens * pricing.input + output_tokens * pricing.output

\* TokenCounter.calculate_cost
calculate_cost(model, input_tokens, output_tokens) ==
    LET normalized == NormalizeFrom(Lower(ModelText[model]), 1)
        model_key  == IF InPricing(normalized) THEN normalized ELSE <<"g","p","t","-","4","o">>
    IN  CostAt(PricingRow(model_key), input_tokens, output_tokens)

\* TokenCounter.estimate_cost
estimate_cost(model, estimated_input_tokens, estimated_output_tokens) ==
    [model                   |-> model,
     estimated_input_tokens  |-> estimated_input_tokens,
     estimated_output_tokens |-> estimated_output_tokens,
     estimated_total_tokens  |-> estimated_input_tokens + estimated_output_tokens,
     estimated_cost          |-> calculate_cost(model, estimated_input_tokens, estimated_output_tokens)]

\* by_model of an empty usage document
EmptyByModel == [m \in {} |-> 0]

\* TokenCounter._create_empty_usage at clock reading now
_create_empty_usage(now) ==
    [total_tokens |-> 0, total_cost |-> 0, by_model |-> EmptyByModel, sessions |-> <<>>,
     last_updated |-> now]

\* sessions[-1000:] once the list is longer than 1000
TrimSessionsMutant(sessions) ==
    IF Len(sessions) > SessionsLimit THEN SubSeq(sessions, 1, SessionsLimit) ELSE sessions

TrimSessions(sessions) ==
    IF Len(sessions) > SessionsLimit
    THEN SubSeq(sessions, Len(sessions) - SessionsLimit + 1, Len(sessions))
    ELSE sessions

\* The usage document after track_usage(model, input_tokens, output_tokens,
\* operation); now is the clock reading of the session entry, and _save_usage
\* reads the clock once more.
track_usage(usage, model, input_tokens, output_tokens, operation, now) ==
    LET total_tokens == input_tokens + output_tokens
        cost         == calculate_cost(model, input_tokens, output_tokens)
        fresh        == [total_tokens |-> 0, total_cost |-> 0, input_tokens |-> 0,
                         output_tokens |-> 0, calls |-> 0]
        model_data   == IF model \in DOMAIN usage.by_model THEN usage.by_model[model] ELSE fresh
        updated      == [total_tokens  |-> model_data.total_tokens + total_tokens,
                         total_cost    |-> model_data.total_cost + cost,
                         input_tokens  |-> model_data.input_tokens + input_tokens,
                         output_tokens |-> model_data.output_tokens + output_tokens,
                         calls         |-> model_data.calls + 1]
        entry        == [timestamp |-> now, model |-> model, operation |-> operation,
                         input_tokens |-> input_tokens, output_tokens |-> output_tokens,
                         total_tokens |-> total_tokens, cost |-> cost]
    IN  [total_tokens |-> usage.total_tokens + total_tokens,
         total_cost   |-> usage.total_cost + cost,
         by_model     |-> [m \in DOMAIN usage.by_model \cup {model} |->
                              IF m = model THEN updated ELSE usage.by_model[m]],
         sessions     |-> TrimSessions(Append(usage.sessions, entry)),
         last_updated |-> now + 1]

\* The arguments of the track_usage calls, in the order the later calls go
\* round them.
UsageCalls ==
    << [model |-> "gpt-4o",      input_tokens |-> 1000, output_tokens |-> 500, operation |-> "test"],
       [model |-> "gpt-4o-mini", input_tokens |-> 200,  output_tokens |-> 100, operation |-> "chat"],
       [model |-> "my-model",    input_tokens |-> 0,    output_tokens |-> 7,   operation |-> "unknown"] >>

\* The arguments the next track_usage call may have.
NextUsageCalls ==
    IF Len(usage_calls) < FreeCalls THEN 1..Len(UsageCalls)
    ELSE {(usage_calls[Len(usage_calls)].call % Len(UsageCalls)) + 1}

\* Token counts given to estimate_cost.
EstimateTokens == {0, 1, 500, 1000}

NoEstimate ==
    [model |-> "", estimated_input_tokens |-> 0, estimated_output_tokens |-> 0,
     estimated_total_tokens |-> 0, estimated_cost |-> 0]

\* TokenCounter() with no usage file on disk.
UsageInit ==
    /\ usage_data = _create_empty_usage(0)
    /\ usage_clock = 1
    /\ usage_calls = <<>>
    /\ usage_resets = 0
    /\ usage_estimate = NoEstimate

\* One call of token_counter.track_usage.
UsageTrack ==
    /\ Len(usage_calls) < MaxCalls
    /\ usage_resets = 0 \/ Len(usage_calls) < MaxCallsAfterReset
    /\ \E c \in NextUsageCalls :
          /\ usage_data' = track_usage(usage_data, UsageCalls[c].model, UsageCalls[c].input_tokens,
                                       UsageCalls[c].output_tokens, UsageCalls[c].operation, usage_clock)
          /\ usage_calls' = Append(usage_calls, [call |-> c, timestamp |-> usage_clock])
    /\ usage_clock' = usage_clock + 2
    /\ UNCHANGED <<usage_resets, usage_estimate>>
    /\ UNCHANGED <<sandbox_vars, scan_vars, chat_vars, guard_vars, topic_vars, router_vars, diff_vars, pester_vars, graph_vars, retry_vars>>

\* One call of token_counter.reset_usage.
UsageReset ==
    /\ usage_resets < MaxResets
    /\ usage_data' = [_create_empty_usage(usage_clock) EXCEPT !.last_updated = usage_clock + 1]
    /\ usage_clock' = usage_clock + 2
    /\ usage_calls' = <<>>
    /\ usage_resets' = usage_resets + 1
    /\ UNCHANGED usage_estimate
    /\ UNCHANGED <<sandbox_vars, scan_vars, chat_vars, guard_vars, topic_vars, router_vars, diff_vars, pester_vars, graph_vars, retry_vars>>

UsageNext == UsageTrack \/ UsageReset

\* One call of token_counter.estimate_cost.
EstimateCost ==
    /\ \E model \in DOMAIN ModelText, input_tokens \in EstimateTokens, output_tokens \in EstimateTokens :
          usage_estimate' = estimate_cost(model, input_tokens, output_tokens)
    /\ UNCHANGED <<usage_data, usage_clock, usage_calls, usage_resets>>
    /\ UNCHANGED <<sandbox_vars, scan_vars, chat_vars, guard_vars, topic_vars, router_vars, diff_vars, pester_vars, graph_vars, retry_vars>>

PricingNext == EstimateCost

\* ---------------------------------------------------------------------------
\* Code diff generator (src/ai/utils/code_diff.py)
\* ---------------------------------------------------------------------------

\* Bound: the number of characters of a script text.
MaxChars == 3

\* The characters of the script texts: two letters and the line feed.
DiffChars == {"a", "b", "\n"}

\* The script texts, as sequences of characters.
Texts == UNION {[1..n -> DiffChars] : n \in 0..MaxChars}

\* CodeDiffGenerator(context_lines=3); difflib.unified_diff has its own n=3.
context_lines == 3

UnifiedContext == 3

Min2(x, y) == IF x < y THEN x ELSE y

Max2(x, y) == IF x > y THEN x ELSE y

\* str.splitlines(keepends=True): every line keeps its line feed.
RECURSIVE SplitLinesFrom(_, _, _)
SplitLinesFrom(text, i, line) ==
    IF i > Len(text) THEN (IF line = <<>> THEN <<>> ELSE <<line>>)
    ELSE IF text[i] = "\n" THEN <<Append(line, text[i])>> \o SplitLinesFrom(text, i + 1, <<>>)
    ELSE SplitLinesFrom(text, i + 1, Append(line, text[i]))

SplitLines(text) == SplitLinesFrom(text, 1, <<>>)

\* str.rstrip(): the trailing white space, the line feed included, is removed.
RECURSIVE RStrip(_)
RStrip(s) ==
    IF s # <<>> /\ s[Len(s)] \in {"\n", " "} THEN RStrip(SubSeq(s, 1, Len(s) - 1)) ELSE s

\* a[i:i+k] == b[j:j+k] (indices from 0, as in Python)
BlockMatches(a, b, i, j, k) == \A t \in 1..k : a[i + t] = b[j + t]

\* The size of the longest block a[i:i+k] == b[j:j+k] within the ranges.
LongestSize(a, b, alo, ahi, blo, bhi) ==
    CHOOSE k \in 0..Min2(ahi - alo, bhi - blo) :
        /\ \E i \in alo..(ahi - k), j \in blo..(bhi - k) : BlockMatches(a, b, i, j, k)
        /\ \A x \in (k + 1)..Min2(ahi - alo, bhi - blo) :
              ~\E i \in alo..(ahi - x), j \in blo..(bhi - x) : BlockMatches(a, b, i, j, x)

\* The earliest start in a of a block of that size.
EarliestInA(a, b, alo, ahi, blo, bhi, size) ==
    CHOOSE i \in alo..(ahi - size) :
        /\ \E j \in blo..(bhi - size) : BlockMatches(a, b, i, j, size)
        /\ \A x \in alo..(i - 1) : ~\E j \in blo..(bhi - size) : BlockMatches(a, b, x, j, size)

\* The earliest start in b of a block of that size starting at i in a.
EarliestInB(a, b, i, blo, bhi, size) ==
    CHOOSE j \in blo..(bhi - size) :
        /\ BlockMatches(a, b, i, j, size)
        /\ \A x \in blo..(j - 1) : ~BlockMatches(a, b, i, x, size)

\* The block of the given size starting earliest in a, and of those the one
\* starting earliest in b.
EarliestBlock(a, b, i, blo, bhi, size) ==
    [i |-> i, j |-> EarliestInB(a, b, i, blo, bhi, size), size |-> size]

LongestBlock(a, b, alo, ahi, blo, bhi, size) ==
    IF size = 0 THEN [i |-> alo, j |-> blo, size |-> 0]
    ELSE EarliestBlock(a, b, EarliestInA(a, b, alo, ahi, blo, bhi, size), blo, bhi, size)

\* SequenceMatcher.find_longest_match(alo, ahi, blo, bhi) with no junk: the
\* longest block a[i:i+k] == b[j:j+k] within the ranges; of the longest ones,
\* the one starting earliest in a, and of those the one starting earliest in
\* b; (alo, blo, 0) when no element matches.
find_longest_match(a, b, alo, ahi, blo, bhi) ==
    LongestBlock(a, b, alo, ahi, blo, bhi, LongestSize(a, b, alo, ahi, blo, bhi))

\* The matching blocks of get_matching_blocks within the ranges, in order:
\* the longest match x, then the same to its left and to its right.
RECURSIVE MatchingBlocksIn(_, _, _, _, _, _)
RECURSIVE BlocksAround(_, _, _, _, _, _, _)
BlocksAround(a, b, alo, ahi, blo, bhi, x) ==
    IF x.size = 0 THEN <<>>
    ELSE (IF alo < x.i /\ blo < x.j THEN MatchingBlocksIn(a, b, alo, x.i, blo, x.j) ELSE <<>>)
         \o <<x>>
         \o (IF x.i + x.size < ahi /\ x.j + x.size < bhi
             THEN MatchingBlocksIn(a, b, x.i + x.size, ahi, x.j + x.size, bhi) ELSE <<>>)

MatchingBlocksIn(a, b, alo, ahi, blo, bhi) ==
    BlocksAround(a, b, alo, ahi, blo, bhi, find_longest_match(a, b, alo, ahi, blo, bhi))

\* Adjacent blocks are collapsed into one.
RECURSIVE Collapse(_)
Collapse(blocks) ==
    IF Len(blocks) < 2 THEN blocks
    ELSE LET x == blocks[1]
             y == blocks[2]
         IN  IF x.i + x.size = y.i /\ x.j + x.size = y.j
             THEN Collapse(<<[i |-> x.i, j |-> x.j, size |-> x.size + y.size]>> \o SubSeq(blocks, 3, Len(blocks)))
             ELSE <<x>> \o Collapse(Tail(blocks))

\* SequenceMatcher.get_matching_blocks: the blocks and the closing (la, lb, 0).
get_matching_blocks(a, b) ==
    Append(Collapse(MatchingBlocksIn(a, b, 0, Len(a), 0, Len(b))),
           [i |-> Len(a), j |-> Len(b), size |-> 0])

\* SequenceMatcher.get_opcodes, from block n of blocks on, with a[:i] and
\* b[:j] already covered.
RECURSIVE OpcodesFrom(_, _, _, _)
OpcodesFrom(blocks, n, i, j) ==
    IF n > Len(blocks) THEN <<>>
    ELSE LET x == blocks[n]
             tag == IF i < x.i /\ j < x.j THEN "replace"
                    ELSE IF i < x.i THEN "delete"
                    ELSE IF j < x.j THEN "insert"
                    ELSE ""
         IN  (IF tag # "" THEN <<[tag |-> tag, i1 |-> i, i2 |-> x.i, j1 |-> j, j2 |-> x.j]>> ELSE <<>>)
             \o (IF x.size > 0
                 THEN <<[tag |-> "equal", i1 |-> x.i, i2 |-> x.i + x.size, j1 |-> x.j, j2 |-> x.j + x.size]>>
                 ELSE <<>>)
             \o OpcodesFrom(blocks, n + 1, x.i + x.size, x.j + x.size)

get_opcodes(a, b) == OpcodesFrom(get_matching_blocks(a, b), 1, 0, 0)

\* sum(triple[-1] for triple in get_matching_blocks())
RECURSIVE MatchedFrom(_, _)
MatchedFrom(blocks, n) ==
    IF n > Len(blocks) THEN 0 ELSE blocks[n].size + MatchedFrom(blocks, n + 1)

\* SequenceMatcher.ratio(): 2.0 * matches / length as the fraction num / den,
\* and 1.0 when both sequences are empty.
RatioMutant(a, b) ==
    IF Len(a) + Len(b) = 0 THEN [num |-> 0, den |-> 1]
    ELSE [num |-> 2 * MatchedFrom(get_matching_blocks(a, b), 1), den |-> Len(a) + Len(b)]

Ratio(a, b) ==
    IF Len(a) + Len(b) = 0 THEN [num |-> 1, den |-> 1]
    ELSE [num |-> 2 * MatchedFrom(get_matching_blocks(a, b), 1), den |-> Len(a) + Len(b)]

\* CodeDiffGenerator._calculate_stats, from opcode n on
RECURSIVE StatsFrom(_, _, _)
StatsFrom(opcodes, n, stats) ==
    IF n > Len(opcodes) THEN stats
    ELSE LET op == opcodes[n]
         IN  StatsFrom(opcodes, n + 1,
                 CASE op.tag = "insert"  -> [stats EXCEPT !.added = @ + (op.j2 - op.j1)]
                   [] op.tag = "delete"  -> [stats EXCEPT !.removed = @ + (op.i2 - op.i1)]
                   [] op.tag = "replace" -> [stats EXCEPT !.modified = @ + Max2(op.i2 - op.i1, op.j2 - op.j1)]
                   [] OTHER -> stats)

_calculate_stats(original, improved) ==
    StatsFrom(get_opcodes(original, improved), 1, [added |-> 0, removed |-> 0, modified |-> 0])

\* The DiffLine records of one opcode in _generate_hunks; None is line number 0
\* and the content <<"None">>.
NoContent == <<"None">>

HunkLines(op, original, improved) ==
    CASE op.tag = "replace" ->
           [k \in 1..Max2(op.i2 - op.i1, op.j2 - op.j1) |->
               [line_number_old |-> IF k <= op.i2 - op.i1 THEN op.i1 + k ELSE 0,
                line_number_new |-> IF k <= op.j2 - op.j1 THEN op.j1 + k ELSE 0,
                content_old |-> IF k <= op.i2 - op.i1 THEN RStrip(original[op.i1 + k]) ELSE NoContent,
                content_new |-> IF k <= op.j2 - op.j1 THEN RStrip(improved[op.j1 + k]) ELSE NoContent,
                change_type |-> "modified"]]
      [] op.tag = "delete" ->
           [k \in 1..(op.i2 - op.i1) |->
               [line_number_old |-> op.i1 + k, line_number_new |-> 0,
                content_old |-> RStrip(original[op.i1 + k]), content_new |-> NoContent,
                change_type |-> "removed"]]
      [] op.tag = "insert" ->
           [k \in 1..(op.j2 - op.j1) |->
               [line_number_old |-> 0, line_number_new |-> op.j1 + k,
                content_old |-> NoContent, content_new |-> RStrip(improved[op.j1 + k]),
                change_type |-> "added"]]

\* CodeDiffGenerator._generate_hunks, from opcode n on: one hunk per opcode
\* that is not 'equal'.
RECURSIVE HunksFrom(_, _, _, _)
HunksFrom(opcodes, n, original, improved) ==
    IF n > Len(opcodes) THEN <<>>
    ELSE LET op == opcodes[n]
             start_ctx == Max2(0, op.i1 - context_lines)
             end_ctx   == Min2(Len(original), op.i2 + context_lines)
         IN  (IF op.tag = "equal" THEN <<>>
              ELSE <<[start_line_old |-> op.i1 + 1,
                      start_line_new |-> op.j1 + 1,
                      lines          |-> HunkLines(op, original, improved),
                      context_before |-> [k \in 1..(op.i1 - start_ctx) |-> RStrip(original[start_ctx + k])],
                      context_after  |-> [k \in 1..(end_ctx - op.i2) |-> RStrip(original[op.i2 + k])]]>>)
             \o HunksFrom(opcodes, n + 1, original, improved)

_generate_hunks(original, improved) ==
    HunksFrom(get_opcodes(original, improved), 1, original, improved)

\* SequenceMatcher.get_grouped_opcodes(n): the loop over codes from position
\* k on, with the group being built and the groups already yielded.
RECURSIVE GroupsFrom(_, _, _, _, _)
GroupsFrom(codes, k, group, groups, n) ==
    IF k > Len(codes)
    THEN IF group # <<>> /\ ~(Len(group) = 1 /\ group[1].tag = "equal")
         THEN Append(groups, group) ELSE groups
    ELSE LET op == codes[k]
         IN  IF op.tag = "equal" /\ op.i2 - op.i1 > n + n
             THEN GroupsFrom(codes, k + 1,
                      <<[op EXCEPT !.i1 = Max2(op.i1, op.i2 - n), !.j1 = Max2(op.j1, op.j2 - n)]>>,
                      Append(groups, Append(group, [op EXCEPT !.i2 = Min2(op.i2, op.i1 + n),
                                                              !.j2 = Min2(op.j2, op.j1 + n)])),
                      n)
             ELSE GroupsFrom(codes, k + 1, Append(group, op), groups, n)

\* The first opcode, when 'equal', keeps its last n lines.
TrimFirst(codes, first, n) ==
    IF first.tag = "equal"
    THEN [codes EXCEPT ![1] = [first EXCEPT !.i1 = Max2(first.i1, first.i2 - n),
                                            !.j1 = Max2(first.j1, first.j2 - n)]]
    ELSE codes

\* The last opcode, when 'equal', keeps its first n lines.
TrimLast(codes, last, n) ==
    IF last.tag = "equal"
    THEN [codes EXCEPT ![Len(codes)] = [last EXCEPT !.i2 = Min2(last.i2, last.i1 + n),
                                                    !.j2 = Min2(last.j2, last.j1 + n)]]
    ELSE codes

TrimFirstOf(codes, n) == TrimFirst(codes, codes[1], n)

TrimLastOf(codes, n) == TrimLast(codes, codes[Len(codes)], n)

\* codes = self.get_opcodes(), or one empty 'equal' when there is none
CodesOrEqual(opcodes) ==
    IF opcodes = <<>> THEN <<[tag |-> "equal", i1 |-> 0, i2 |-> 1, j1 |-> 0, j2 |-> 1]>> ELSE opcodes

get_grouped_opcodes(a, b, n) ==
    GroupsFrom(TrimLastOf(TrimFirstOf(CodesOrEqual(get_opcodes(a, b)), n), n), 1, <<>>, <<>>, n)

\* difflib._format_range_unified(start, stop): the numbers it prints
_format_range_unified(start, stop) ==
    [beginning |-> IF stop - start = 0 THEN start ELSE start + 1, length |-> stop - start]

\* generate_diff passes lineterm='' to difflib.unified_diff.
lineterm == <<>>

\* One string yielded by unified_diff: the marker it starts with, the text
\* after the marker, and the ranges of a hunk header.
Piece(marker, text) == [marker |-> marker, text |-> text]

\* The strings unified_diff yields for the lines a[i1:i2] behind a marker.
MarkedLines(marker, a, i1, i2) == [k \in 1..(i2 - i1) |-> Piece(marker, a[i1 + k])]

\* The strings unified_diff yields for the opcodes of one group, from k on.
RECURSIVE GroupBody(_, _, _, _)
GroupBody(group, k, a, b) ==
    IF k > Len(group) THEN <<>>
    ELSE LET op == group[k]
         IN  (IF op.tag = "equal" THEN MarkedLines(" ", a, op.i1, op.i2)
              ELSE (IF op.tag \in {"replace", "delete"} THEN MarkedLines("-", a, op.i1, op.i2) ELSE <<>>)
                   \o (IF op.tag \in {"replace", "insert"} THEN MarkedLines("+", b, op.j1, op.j2) ELSE <<>>))
             \o GroupBody(group, k + 1, a, b)

\* The hunk header '@@ -{} +{} @@{}' of a group.
HunkHeader(group) ==
    [marker |-> "@@",
     text   |-> lineterm,
     old    |-> _format_range_unified(group[1].i1, group[Len(group)].i2),
     new    |-> _format_range_unified(group[1].j1, group[Len(group)].j2)]

\* The strings of the groups from g on.
RECURSIVE GroupsText(_, _, _, _)
GroupsText(groups, g, a, b) ==
    IF g > Len(groups) THEN <<>>
    ELSE <<HunkHeader(groups[g])>> \o GroupBody(groups[g], 1, a, b) \o GroupsText(groups, g + 1, a, b)

\* The strings unified_diff yields for the groups: the two file headers
\* before the first group, nothing when there is no group.
UnifiedText(groups, a, b, fromfile, tofile) ==
    IF groups = <<>> THEN <<>>
    ELSE <<Piece("---", fromfile \o lineterm), Piece("+++", tofile \o lineterm)>>
         \o GroupsText(groups, 1, a, b)

\* difflib.unified_diff(a, b, fromfile, tofile, lineterm): the strings it
\* yields, in order.
unified_diff(a, b, fromfile, tofile) ==
    UnifiedText(get_grouped_opcodes(a, b, UnifiedContext), a, b, fromfile, tofile)

\* Whether a yielded string ends its line.
EndsLine(piece) == piece.text # <<>> /\ piece.text[Len(piece.text)] = "\n"

\* ''.join(unified): the text, as its lines, each line being the yielded
\* strings that lie on it; a string that does not end with a line feed is
\* followed on the same line by the next one.
RECURSIVE JoinFrom(_, _, _)
JoinFrom(pieces, k, line) ==
    IF k > Len(pieces) THEN (IF line = <<>> THEN <<>> ELSE <<line>>)
    ELSE IF EndsLine(pieces[k]) THEN <<Append(line, pieces[k])>> \o JoinFrom(pieces, k + 1, <<>>)
    ELSE JoinFrom(pieces, k + 1, Append(line, pieces[k]))

Join(pieces) == JoinFrom(pieces, 1, <<>>)

OriginalName == <<"o","r","i","g","i","n","a","l",".","p","s","1">>

ImprovedName == <<"i","m","p","r","o","v","e","d",".","p","s","1">>

\* The DiffResult generate_diff returns (html_diff and improvements left out).
DiffResult(original_lines, improved_lines, stats, hunks, unified, similarity) ==
    [original_lines   |-> original_lines,
     improved_lines   |-> improved_lines,
     lines_added      |-> stats.added,
     lines_removed    |-> stats.removed,
     lines_modified   |-> stats.modified,
     hunks            |-> hunks,
     unified_diff     |-> unified,
     similarity_ratio |-> similarity]

\* generate_diff on the lines of the two texts
DiffOfLines(original_lines, improved_lines, original, improved) ==
    DiffResult(Len(original_lines), Len(improved_lines),
               _calculate_stats(original_lines, improved_lines),
               _generate_hunks(original_lines, improved_lines),
               Join(unified_diff(original_lines, improved_lines, OriginalName, ImprovedName)),
               Ratio(original, improved))

\* CodeDiffGenerator.generate_diff
generate_diff(original, improved) ==
    DiffOfLines(SplitLines(original), SplitLines(improved), original, improved)

NoDiffResult ==
    [original_lines |-> 0, improved_lines |-> 0, lines_added |-> 0, lines_removed |-> 0,
     lines_modified |-> 0, hunks |-> <<>>, unified_diff |-> <<>>,
     similarity_ratio |-> [num |-> 0, den |-> 0]]

DiffInit ==
    /\ diff_original \in Texts
    /\ diff_improved \in Texts
    /\ diff_returned = FALSE
    /\ diff_result = NoDiffResult

\* One call of generate_diff(original, improved).
GenerateDiff ==
    /\ ~diff_returned
    /\ diff_result' = generate_diff(diff_original, diff_improved)
    /\ diff_returned' = TRUE
    /\ UNCHANGED <<diff_original, diff_improved>>
    /\ UNCHANGED <<sandbox_vars, scan_vars, chat_vars, guard_vars, topic_vars, router_vars, usage_vars, pester_vars, graph_vars, retry_vars>>

DiffNext == GenerateDiff
\* The scripts given to parse_functions, each with the FunctionInfo list the
\* regular expressions of parse_functions extract from its text.
SampleScripts ==
    << [text |-> "function Get-Now {\n    Get-Date\n}\n",
        functions |-> << [name |-> "Get-Now",
         parameters |-> <<>>,
         has_cmdlet_binding |-> FALSE, has_should_process |-> FALSE, has_begin_process_end |-> FALSE,
         outputs |-> <<"void">>, line_number |-> 1] >>],
       [text |-> "function Get-Item2 {\n    param(\n        [Parameter(Mandatory=$true)]\n        [string]$Path\n    )\n    return $Path\n}\n",
        functions |-> << [name |-> "Get-Item2",
         parameters |-> <<[name |-> "true", type |-> "object", mandatory |-> FALSE]>>,
         has_cmdlet_binding |-> FALSE, has_should_process |-> FALSE, has_begin_process_end |-> FALSE,
         outputs |-> <<"object">>, line_number |-> 1] >>],
       [text |-> "function Add-One {\n    param([int]$Value = 1)\n    Write-Output ($Value + 1)\n}\n",
        functions |-> << [name |-> "Add-One",
         parameters |-> <<[name |-> "Value", type |-> "int", mandatory |-> FALSE]>>,
         has_cmdlet_binding |-> FALSE, has_should_process |-> FALSE, has_begin_process_end |-> FALSE,
         outputs |-> <<"object">>, line_number |-> 1] >>],
       [text |-> "function Set-Level {\n    [CmdletBinding(SupportsShouldProcess)]\n    param(\n        [Parameter(Mandatory)]\n        [int]$Level,\n        [switch]$Force\n    )\n    if ($PSCmdlet.ShouldProcess('level')) { $script:level = $Level }\n}\n",
        functions |-> << [name |-> "Set-Level",
         parameters |-> <<>>,
         has_cmdlet_binding |-> FALSE, has_should_process |-> FALSE, has_begin_process_end |-> FALSE,
         outputs |-> <<"void">>, line_number |-> 1] >>],
       [text |-> "function Test-Ready {\n    [OutputType([bool])]\n    param($Name)\n    return $true\n}\n",
        functions |-> << [name |-> "Test-Ready",
         parameters |-> <<[name |-> "Name", type |-> "object", mandatory |-> FALSE]>>,
         has_cmdlet_binding |-> FALSE, has_should_process |-> FALSE, has_begin_process_end |-> FALSE,
         outputs |-> <<"bool", "bool", "object">>, line_number |-> 1] >>],
       [text |-> "function Remove-Thing {\n    [CmdletBinding(SupportsShouldProcess)]\n    param([datetime]$Before, $Name)\n    Remove-Item $Name -WhatIf\n}\n",
        functions |-> << [name |-> "Remove-Thing",
         parameters |-> <<[name |-> "Before", type |-> "datetime", mandatory |-> FALSE], [name |-> "Name", type |-> "object", mandatory |-> FALSE]>>,
         has_cmdlet_binding |-> TRUE, has_should_process |-> TRUE, has_begin_process_end |-> FALSE,
         outputs |-> <<"void">>, line_number |-> 1] >>],
       [text |-> "function Join-Text {\n    param([String]$Left, [string]$Right)\n    return [PSCustomObject]@{ Text = $Left + $Right }\n}\n",
        functions |-> << [name |-> "Join-Text",
         parameters |-> <<>>,
         has_cmdlet_binding |-> FALSE, has_should_process |-> FALSE, has_begin_process_end |-> FALSE,
         outputs |-> <<"void">>, line_number |-> 1] >>],
       [text |-> "function Get-Now {\n    Get-Date\n}\nfunction Add-One {\n    param([int]$Value = 1)\n    Write-Output ($Value + 1)\n}\n",
        functions |-> << [name |-> "Get-Now",
         parameters |-> <<[name |-> "Value", type |-> "int", mandatory |-> FALSE]>>,
         has_cmdlet_binding |-> FALSE, has_should_process |-> FALSE, has_begin_process_end |-> FALSE,
         outputs |-> <<"object">>, line_number |-> 1],
        [name |-> "Add-One",
         parameters |-> <<[name |-> "Value", type |-> "int", mandatory |-> FALSE]>>,
         has_cmdlet_binding |-> FALSE, has_should_process |-> FALSE, has_begin_process_end |-> FALSE,
         outputs |-> <<"object">>, line_number |-> 3] >>],
       [text |-> "function Add-One {\n    param([int]$Value = 1)\n    Write-Output ($Value + 1)\n}\nfunction Get-Now {\n    Get-Date\n}\n",
        functions |-> << [name |-> "Add-One",
         parameters |-> <<[name |-> "Value", type |-> "int", mandatory |-> FALSE]>>,
         has_cmdlet_binding |-> FALSE, has_should_process |-> FALSE, has_begin_process_end |-> FALSE,
         outputs |-> <<"object">>, line_number |-> 1],
        [name |-> "Get-Now",
         parameters |-> <<>>,
         has_cmdlet_binding |-> FALSE, has_should_process |-> FALSE, has_begin_process_end |-> FALSE,
         outputs |-> <<"void">>, line_number |-> 4] >>],
       [text |-> "function Test-Ready {\n    [OutputType([bool])]\n    param($Name)\n    return $true\n}\nfunction Get-Item2 {\n    param(\n        [Parameter(Mandatory=$true)]\n        [string]$Path\n    )\n    return $Path\n}\n",
        functions |-> << [name |-> "Test-Ready",
         parameters |-> <<[name |-> "Name", type |-> "object", mandatory |-> FALSE]>>,
         has_cmdlet_binding |-> FALSE, has_should_process |-> FALSE, has_begin_process_end |-> FALSE,
         outputs |-> <<"bool", "bool", "object">>, line_number |-> 1],
        [name |-> "Get-Item2",
         parameters |-> <<[name |-> "true", type |-> "object", mandatory |-> FALSE]>>,
         has_cmdlet_binding |-> FALSE, has_should_process |-> FALSE, has_begin_process_end |-> FALSE,
         outputs |-> <<"object">>, line_number |-> 5] >>],
       [text |-> "function Join-Text {\n    param([String]$Left, [string]$Right)\n    return [PSCustomObject]@{ Text = $Left + $Right }\n}\nfunction Set-Level {\n    [CmdletBinding(SupportsShouldProcess)]\n    param(\n        [Parameter(Mandatory)]\n        [int]$Level,\n        [switch]$Force\n    )\n    if ($PSCmdlet.ShouldProcess('level')) { $script:level = $Level }\n}\n",
        functions |-> << [name |-> "Join-Text",
         parameters |-> <<>>,
         has_cmdlet_binding |-> FALSE, has_should_process |-> FALSE, has_begin_process_end |-> FALSE,
         outputs |-> <<"void">>, line_number |-> 1],
        [name |-> "Set-Level",
         parameters |-> <<>>,
         has_cmdlet_binding |-> FALSE, has_should_process |-> FALSE, has_begin_process_end |-> FALSE,
         outputs |-> <<"void">>, line_number |-> 4] >>],
       [text |-> "function Remove-Thing {\n    [CmdletBinding(SupportsShouldProcess)]\n    param([datetime]$Before, $Name)\n    Remove-Item $Name -WhatIf\n}\nfunction Remove-Thing {\n    [CmdletBinding(SupportsShouldProcess)]\n    param([datetime]$Before, $Name)\n    Remove-Item $Name -WhatIf\n}\n",
        functions |-> << [name |-> "Remove-Thing",
         parameters |-> <<[name |-> "Before", type |-> "datetime", mandatory |-> FALSE], [name |-> "Name", type |-> "object", mandatory |-> FALSE]>>,
         has_cmdlet_binding |-> TRUE, has_should_process |-> TRUE, has_begin_process_end |-> FALSE,
         outputs |-> <<"void">>, line_number |-> 1],
        [name |-> "Remove-Thing",
         parameters |-> <<[name |-> "Before", type |-> "datetime", mandatory |-> FALSE], [name |-> "Name", type |-> "object", mandatory |-> FALSE]>>,
         has_cmdlet_binding |-> TRUE, has_should_process |-> TRUE, has_begin_process_end |-> FALSE,
         outputs |-> <<"void">>, line_number |-> 5] >>] >>
(***************************************************************************)
(* PesterGenerator.generate_tests on the functions of one script.          *)
(***************************************************************************)
\* Largest number of parameters of a FunctionInfo built by the caller.
MaxParams == 2

FunctionInfo(name, parameters, has_cmdlet_binding, has_should_process, has_begin_process_end, outputs, line_number) ==
    [name |-> name, parameters |-> parameters, has_cmdlet_binding |-> has_cmdlet_binding,
     has_should_process |-> has_should_process, has_begin_process_end |-> has_begin_process_end,
     outputs |-> outputs, line_number |-> line_number]

PesterTest(function_name, test_name, test_code, test_type, mocks) ==
    [function_name |-> function_name, test_name |-> test_name, test_code |-> test_code,
     test_type |-> test_type, mocks |-> mocks]

\* PesterGenerator(include_mocks, test_coverage)
NewPesterGenerator(include_mocks, test_coverage) ==
    [include_mocks |-> include_mocks, test_coverage |-> test_coverage]

\* parse_functions(script_content), on a sample script
parse_functions(script) == script.functions

\* The parameters a caller gives a FunctionInfo it builds itself.
DirectParameters ==
    { [name |-> "Path",  type |-> "string", mandatory |-> TRUE],
      [name |-> "Level", type |-> "int",    mandatory |-> TRUE],
      [name |-> "Left",  type |-> "String", mandatory |-> FALSE] }

\* The function lists a caller builds itself, without parse_functions.
DirectFunctions ==
    { << FunctionInfo("Set-Level", ps, TRUE, sp, FALSE, <<"void">>, 1) >> :
          ps \in UNION { [1..n -> DirectParameters] : n \in 0..MaxParams }, sp \in BOOLEAN }

\* type_values.get(param_type.lower(), '"TestValue"'), on the sample types
_get_test_value(param_type) ==
    CASE param_type \in {"string", "String"}     -> "\"TestValue\""
      [] param_type \in {"int"}                  -> "42"
      [] param_type \in {"datetime"}             -> "(Get-Date)"
      [] OTHER                                   -> "\"TestValue\""

\* _get_minimal_params(parameters), from parameter i on: the "-name value" pieces
RECURSIVE MinimalParamsFrom(_, _)
MinimalParamsFrom(parameters, i) ==
    IF i > Len(parameters) THEN <<>>
    ELSE (IF parameters[i].mandatory
          THEN << [name |-> parameters[i].name, value |-> _get_test_value(parameters[i].type)] >>
          ELSE <<>>) \o MinimalParamsFrom(parameters, i + 1)

_get_minimal_params(parameters) == MinimalParamsFrom(parameters, 1)

\* if param["type"] not in ("object", "string")
WantsTypeTestMutant(param) == param.type # "object"

WantsTypeTest(param) == param.type \notin {"object", "string"}

\* The tests _generate_parameter_tests appends for one parameter.
ParameterTests(func, param) ==
    (IF param.mandatory
     THEN << PesterTest(func.name,
                        [text |-> "requires mandatory parameter", parameter |-> param.name],
                        [call |-> func.name, args |-> <<>>, should |-> "Throw"],
                        "Unit", <<>>) >>
     ELSE <<>>)
    \o
    (IF WantsTypeTest(param)
     THEN << PesterTest(func.name,
                        [text |-> "validates is of type", parameter |-> param.name, type |-> param.type],
                        [call |-> func.name,
                         args |-> << [name |-> param.name, value |-> _get_test_value(param.type)] >>,
                         should |-> "BeTrue"],
                        "Unit", <<>>) >>
     ELSE <<>>)

\* for param in func.parameters, from parameter i on
RECURSIVE ParameterTestsFrom(_, _)
ParameterTestsFrom(func, i) ==
    IF i > Len(func.parameters) THEN <<>>
    ELSE ParameterTests(func, func.parameters[i]) \o ParameterTestsFrom(func, i + 1)

_generate_parameter_tests(func) == ParameterTestsFrom(func, 1)

\* for output_type in func.outputs
_generate_output_tests(func) ==
    [i \in 1..Len(func.outputs) |->
        PesterTest(func.name,
                   [text |-> "returns type", type |-> func.outputs[i]],
                   [call |-> func.name, args |-> _get_minimal_params(func.parameters),
                    should |-> "Not BeNullOrEmpty"],
                   "Unit", <<>>)]

_generate_error_tests(func) ==
    << PesterTest(func.name,
                  [text |-> "handles errors gracefully"],
                  [call |-> func.name, args |-> <<>>, should |-> "Not Throw"],
                  "Unit", <<"Mock Write-Error {}">>) >>

_generate_should_process_tests(func) ==
    << PesterTest(func.name,
                  [text |-> "supports -WhatIf"],
                  [call |-> func.name, args |-> _get_minimal_params(func.parameters),
                   should |-> "WhatIf"],
                  "Unit", <<>>) >>

\* The tests generate_tests extends the list with for one function.
TestsOf(self, func) ==
    _generate_parameter_tests(func)
    \o _generate_output_tests(func)
    \o (IF self.test_coverage \in {"standard", "comprehensive"}
        THEN _generate_error_tests(func) ELSE <<>>)
    \o (IF func.has_should_process
        THEN _generate_should_process_tests(func) ELSE <<>>)

\* for func in functions, from function i on
RECURSIVE GenerateTestsFrom(_, _, _)
GenerateTestsFrom(self, functions, i) ==
    IF i > Len(functions) THEN <<>>
    ELSE TestsOf(self, functions[i]) \o GenerateTestsFrom(self, functions, i + 1)

\* PesterGenerator.generate_tests(functions)
generate_tests(self, functions) == GenerateTestsFrom(self, functions, 1)

NoPesterScript == [text |-> "", functions |-> <<>>]

NoFunctions == << FunctionInfo("", <<>>, FALSE, FALSE, FALSE, <<>>, 0) >>

NoPesterTests == << PesterTest("", [text |-> "none"], [call |-> "", args |-> <<>>, should |-> ""], "", <<>>) >>

PesterInit ==
    /\ pester_generator \in
           { NewPesterGenerator(m, c) : m \in BOOLEAN, c \in {"minimal", "standard", "comprehensive"} }
    /\ pester_script = NoPesterScript
    /\ pester_functions = NoFunctions
    /\ pester_tests = NoPesterTests

\* A caller parses a script with parse_functions.
ParseFunctions ==
    /\ pester_functions = NoFunctions
    /\ \E i \in 1..Len(SampleScripts) :
          /\ pester_script' = SampleScripts[i]
          /\ pester_functions' = parse_functions(SampleScripts[i])
    /\ UNCHANGED <<pester_generator, pester_tests>>
    /\ UNCHANGED <<sandbox_vars, scan_vars, chat_vars, guard_vars, topic_vars, router_vars, usage_vars, diff_vars, graph_vars, retry_vars>>

\* A caller builds the FunctionInfo list itself.
BuildFunctions ==
    /\ pester_functions = NoFunctions
    /\ \E functions \in DirectFunctions : pester_functions' = functions
    /\ UNCHANGED <<pester_generator, pester_script, pester_tests>>
    /\ UNCHANGED <<sandbox_vars, scan_vars, chat_vars, guard_vars, topic_vars, router_vars, usage_vars, diff_vars, graph_vars, retry_vars>>

\* The caller gives the functions to generate_tests.
GenerateTests ==
    /\ pester_functions # NoFunctions
    /\ pester_tests = NoPesterTests
    /\ pester_tests' = generate_tests(pester_generator, pester_functions)
    /\ UNCHANGED <<pester_generator, pester_script, pester_functions>>
    /\ UNCHANGED <<sandbox_vars, scan_vars, chat_vars, guard_vars, topic_vars, router_vars, usage_vars, diff_vars, graph_vars, retry_vars>>

PesterNext == ParseFunctions \/ BuildFunctions \/ GenerateTests

(***************************************************************************)
(* The LangGraph analysis workflow: its nodes and its routing.             *)
(***************************************************************************)
\* Largest number of runs of the analyze node in one workflow.
MaxAnalyzeRuns == 3

\* Largest number of tool calls in one response of the model.
MaxToolCalls == 3

\* langgraph.graph.END
END == "__end__"

\* A message of the state: its class and the number of its tool_calls (only
\* the responses of the model have the attribute).
BaseMessage(class, tool_calls) == [class |-> class, tool_calls |-> tool_calls]

HumanMessage == BaseMessage("HumanMessage", 0)

ToolMessage == BaseMessage("ToolMessage", 0)

AIMessage(tool_calls) == BaseMessage("AIMessage", tool_calls)

\* initial_state of analyze_script(script_content, require_human_review)
initial_state(require_human_review) ==
    [messages |-> << HumanMessage >>,
     current_stage |-> "initialized",
     requires_human_review |-> require_human_review,
     human_feedback |-> FALSE,
     final_response |-> FALSE]

\* tool_messages = [m for m in messages if isinstance(m, ToolMessage)]
tool_messages(messages) == { i \in 1..Len(messages) : messages[i] = ToolMessage }

\* should_continue(state)
should_continue(state) ==
    LET messages == state.messages
        last_has_tool_calls == Len(messages) > 0 /\ messages[Len(messages)].tool_calls > 0
    IN  IF state.requires_human_review /\ ~state.human_feedback THEN "human_review"
        ELSE IF last_has_tool_calls THEN "tools"
        ELSE IF tool_messages(messages) # {} /\ ~state.final_response
             THEN IF Cardinality(tool_messages(messages)) >= 3 THEN "synthesis" ELSE "analyze"
        ELSE IF state.final_response THEN END
        ELSE "synthesis"

\* route_after_human_review(state)
route_after_human_review(state) == IF state.human_feedback THEN "analyze" ELSE "synthesis"

\* The path map of add_conditional_edges("analyze", should_continue, {...})
AnalyzeEdges ==
    ("tools" :> "tools") @@ ("synthesis" :> "synthesis") @@ ("human_review" :> "human_review")
        @@ (END :> END)

\* The path map of add_conditional_edges("human_review", route_after_human_review, {...})
HumanReviewEdges == ("analyze" :> "analyze") @@ ("synthesis" :> "synthesis")

\* The node a conditional edge leads to: the entry of the path map for the key
\* the routing function returned, and no node when the map has no such key.
Unmapped == "unmapped"

Branch(edges, key) == IF key \in DOMAIN edges THEN edges[key] ELSE Unmapped

\* analyze_node: the response of the model is appended
analyze_node(state, reply) ==
    [state EXCEPT !.messages = Append(@, reply), !.current_stage = "analysis"]

\* tool_execution_node: ToolNode answers every tool call of the last message
tool_execution_node(state) ==
    [state EXCEPT
        !.messages = @ \o [i \in 1..(@[Len(@)].tool_calls) |-> ToolMessage],
        !.current_stage = "tool_execution"]

\* synthesis_node
synthesis_node(state) ==
    [state EXCEPT !.messages = Append(@, AIMessage(0)),
                  !.final_response = TRUE,
                  !.current_stage = "completed"]

\* human_review_node
human_review_node(state) ==
    IF state.requires_human_review /\ state.human_feedback
    THEN [state EXCEPT !.messages = Append(@, HumanMessage),
                       !.requires_human_review = FALSE,
                       !.current_stage = "human_reviewed"]
    ELSE state

\* The runs of the analyze node so far: each appends one response of the model.
AnalyzeRuns(state) ==
    Cardinality({ i \in 1..Len(state.messages) :
                     state.messages[i].class = "AIMessage" }) - (IF state.final_response THEN 1 ELSE 0)

NoRoute == "none"

GraphInit ==
    /\ graph_state \in { initial_state(r) : r \in BOOLEAN }
    /\ graph_node = "analyze"
    /\ graph_routed = NoRoute

\* The analyze node runs, then its conditional edge picks the next node.
AnalyzeNode ==
    /\ graph_node = "analyze"
    /\ AnalyzeRuns(graph_state) < MaxAnalyzeRuns
    /\ \E n \in 0..MaxToolCalls :
          LET after == analyze_node(graph_state, AIMessage(n))
          IN  /\ graph_state' = after
              /\ graph_routed' = should_continue(after)
              /\ graph_node' = Branch(AnalyzeEdges, should_continue(after))
    /\ UNCHANGED <<sandbox_vars, scan_vars, chat_vars, guard_vars, topic_vars, router_vars, usage_vars, diff_vars, pester_vars, retry_vars>>

\* The tools node runs; its edge leads back to analyze.
ToolExecutionNode ==
    /\ graph_node = "tools"
    /\ graph_state' = tool_execution_node(graph_state)
    /\ graph_node' = "analyze"
    /\ UNCHANGED graph_routed
    /\ UNCHANGED <<sandbox_vars, scan_vars, chat_vars, guard_vars, topic_vars, router_vars, usage_vars, diff_vars, pester_vars, retry_vars>>

\* The synthesis node runs; its edge leads to END.
SynthesisNode ==
    /\ graph_node = "synthesis"
    /\ graph_state' = synthesis_node(graph_state)
    /\ graph_node' = END
    /\ UNCHANGED graph_routed
    /\ UNCHANGED <<sandbox_vars, scan_vars, chat_vars, guard_vars, topic_vars, router_vars, usage_vars, diff_vars, pester_vars, retry_vars>>

\* The human_review node runs, then its conditional edge picks the next node.
HumanReviewNode ==
    /\ graph_node = "human_review"
    /\ graph_state' = human_review_node(graph_state)
    /\ graph_node' = Branch(HumanReviewEdges, route_after_human_review(human_review_node(graph_state)))
    /\ UNCHANGED graph_routed
    /\ UNCHANGED <<sandbox_vars, scan_vars, chat_vars, guard_vars, topic_vars, router_vars, usage_vars, diff_vars, pester_vars, retry_vars>>

\* continue_with_feedback: the finished workflow is invoked again with the
\* feedback of the reviewer, from the entry point.
ContinueWithFeedback ==
    /\ graph_node = END
    /\ ~graph_state.human_feedback
    /\ graph_state' = [graph_state EXCEPT !.human_feedback = TRUE, !.requires_human_review = FALSE]
    /\ graph_node' = "analyze"
    /\ UNCHANGED graph_routed
    /\ UNCHANGED <<sandbox_vars, scan_vars, chat_vars, guard_vars, topic_vars, router_vars, usage_vars, diff_vars, pester_vars, retry_vars>>

GraphNext ==
    AnalyzeNode \/ ToolExecutionNode \/ SynthesisNode \/ HumanReviewNode \/ ContinueWithFeedback

(***************************************************************************)
(* retry_with_backoff: the wrapper around one call of the function.        *)
(***************************************************************************)
\* Largest max_retries given to the decorator.
MaxRetries == 2

\* initial_delay, max_delay and exponential_base of the decorator, in seconds
initial_delay == 1

max_delay == 30

exponential_base == 2

\* What one invocation of the wrapped function can raise: the class of the
\* exception and its retry_after (0 for None or a missing attribute).
Exceptions ==
    { [class |-> "OpenAIError",     retry_after |-> 0],
      [class |-> "RateLimitError",  retry_after |-> 60],
      [class |-> "TimeoutError",    retry_after |-> 0],
      [class |-> "ValidationError", retry_after |-> 0],
      [class |-> "ValueError",      retry_after |-> 0] }

\* The retryable_errors tuples given to the decorator: the default, and one class.
RetryableErrors ==
    { {"OpenAIError", "TimeoutError", "RateLimitError"}, {"TimeoutError"} }

\* retry_with_backoff(max_retries, retryable_errors)
NewRetryWrapper(max_retries, retryable_errors) ==
    [max_retries |-> max_retries, retryable_errors |-> retryable_errors]

\* for attempt in range(max_retries + 1)
Attempts(max_retries) == 0..(max_retries + 1 - 1)

\* except retryable_errors as e (none of the sample classes derives from another)
IsRetryableMutant(self, e) == TRUE

IsRetryable(self, e) == e.class \in self.retryable_errors

\* wait_time: retry_after when the exception has one, else delay; at most max_delay
WaitTime(e, current_delay) ==
    IF e.retry_after # 0 THEN Min2(e.retry_after, max_delay) ELSE Min2(current_delay, max_delay)

Returned == [kind |-> "returned", class |-> "", retry_after |-> 0]

Raised(e) == [kind |-> "raised", class |-> e.class, retry_after |-> e.retry_after]

NoOutcome == [kind |-> "running", class |-> "", retry_after |-> 0]

RetryInit ==
    /\ retry_wrapper \in { NewRetryWrapper(m, r) : m \in 0..MaxRetries, r \in RetryableErrors }
    /\ retry_attempt = 0
    /\ retry_delay = initial_delay
    /\ retry_calls = <<>>
    /\ retry_sleeps = <<>>
    /\ retry_outcome = NoOutcome

\* The wrapper is in its loop, about to invoke the function.
RetryRunning ==
    /\ retry_outcome = NoOutcome
    /\ retry_attempt \in Attempts(retry_wrapper.max_retries)

\* The function returns: the wrapper returns its value.
CallReturns ==
    /\ RetryRunning
    /\ retry_calls' = Append(retry_calls, Returned)
    /\ retry_outcome' = Returned
    /\ UNCHANGED <<retry_wrapper, retry_attempt, retry_delay, retry_sleeps>>
    /\ UNCHANGED <<sandbox_vars, scan_vars, chat_vars, guard_vars, topic_vars, router_vars, usage_vars, diff_vars, pester_vars, graph_vars>>

\* The function raises an exception no except clause catches: it propagates.
CallRaisesOther ==
    /\ RetryRunning
    /\ \E e \in Exceptions :
          /\ ~IsRetryable(retry_wrapper, e)
          /\ retry_calls' = Append(retry_calls, Raised(e))
          /\ retry_outcome' = Raised(e)
    /\ UNCHANGED <<retry_wrapper, retry_attempt, retry_delay, retry_sleeps>>
    /\ UNCHANGED <<sandbox_vars, scan_vars, chat_vars, guard_vars, topic_vars, router_vars, usage_vars, diff_vars, pester_vars, graph_vars>>

\* The function raises a retryable exception: the wrapper sleeps and goes to
\* the next attempt, or raises the exception again on the last attempt.
CallRaisesRetryable ==
    /\ RetryRunning
    /\ \E e \in Exceptions :
          /\ IsRetryable(retry_wrapper, e)
          /\ retry_calls' = Append(retry_calls, Raised(e))
          /\ IF retry_attempt < retry_wrapper.max_retries
             THEN /\ retry_sleeps' = Append(retry_sleeps, WaitTime(e, retry_delay))
                  /\ retry_delay' = retry_delay * exponential_base
                  /\ retry_attempt' = retry_attempt + 1
                  /\ UNCHANGED retry_outcome
             ELSE /\ retry_outcome' = Raised(e)
                  /\ UNCHANGED <<retry_attempt, retry_delay, retry_sleeps>>
    /\ UNCHANGED retry_wrapper
    /\ UNCHANGED <<sandbox_vars, scan_vars, chat_vars, guard_vars, topic_vars, router_vars, usage_vars, diff_vars, pester_vars, graph_vars>>

RetryNext == CallReturns \/ CallRaisesOther \/ CallRaisesRetryable

(***************************************************************************)
(* The specifications: one per component, the others at rest.              *)
(***************************************************************************)
ScanIdle ==
    /\ scan_code = EmptyCode
    /\ scan_strict_mode = FALSE
    /\ line_num = 0
    /\ scan_state = ScanStart
    /\ scan_returned = NoScanResult
    /\ output_request = NoOutputRequest
    /\ output_result = NoOutputResult

ChatIdle ==
    /\ security_guard = NewSecurityGuard(FALSE)
    /\ mock_mode = FALSE
    /\ chat_pc = "idle"
    /\ chat_request = NoChatRequest
    /\ model_input = NoModelInput
    /\ delivered = <<>>

GuardIdle == guard_scans = <<>> /\ output_validation = NoOutputValidation

TopicIdle ==
    /\ topic_validator = NewTopicValidator(FALSE)
    /\ topic_message = NoTopicMessage
    /\ topic_checked = NoTopicResult
    /\ topic_result = NoTopicResult

\* Every component but the named ones at rest.
RouterIdle ==
    /\ router = NewModelRouter("gpt-5-mini", FALSE)
    /\ route_query = NoRouteQuery
    /\ route_context = 0
    /\ route_decision = NoRoutingDecision
    /\ task_call = NoTaskCall
    /\ _router = NoRouter
    /\ got_router = NoGotRouter

UsageIdle == UsageInit

DiffIdle ==
    /\ diff_original = <<>>
    /\ diff_improved = <<>>
    /\ diff_returned = FALSE
    /\ diff_result = NoDiffResult

PesterIdle ==
    /\ pester_generator = NewPesterGenerator(TRUE, "standard")
    /\ pester_script = NoPesterScript
    /\ pester_functions = NoFunctions
    /\ pester_tests = NoPesterTests

GraphIdle ==
    /\ graph_state = initial_state(FALSE)
    /\ graph_node = "analyze"
    /\ graph_routed = NoRoute

RetryIdle ==
    /\ retry_wrapper = NewRetryWrapper(0, {"TimeoutError"})
    /\ retry_attempt = 0
    /\ retry_delay = initial_delay
    /\ retry_calls = <<>>
    /\ retry_sleeps = <<>>
    /\ retry_outcome = NoOutcome

SandboxSpecInit == SandboxInit /\ ScanIdle /\ ChatIdle /\ GuardIdle /\ TopicIdle /\ RouterIdle /\ UsageIdle /\ DiffIdle /\ PesterIdle /\ GraphIdle /\ RetryIdle

SandboxSpec == SandboxSpecInit /\ [][SandboxNext]_vars

ScanSpecInit == ScanInit /\ SandboxInit /\ ChatIdle /\ GuardIdle /\ TopicIdle /\ RouterIdle /\ UsageIdle /\ DiffIdle /\ PesterIdle /\ GraphIdle /\ RetryIdle

ScanSpec == ScanSpecInit /\ [][ScanNext]_vars

ChatSpecInit == ChatInit /\ SandboxInit /\ ScanIdle /\ GuardIdle /\ TopicIdle /\ RouterIdle /\ UsageIdle /\ DiffIdle /\ PesterIdle /\ GraphIdle /\ RetryIdle

ChatSpec == ChatSpecInit /\ [][ChatNext]_vars

GuardSpecInit == GuardInit /\ SandboxInit /\ ScanIdle /\ TopicIdle /\ RouterIdle /\ UsageIdle /\ DiffIdle /\ PesterIdle /\ GraphIdle /\ RetryIdle

GuardSpec == GuardSpecInit /\ [][GuardNext]_vars

TopicSpecInit == TopicInit /\ SandboxInit /\ ScanIdle /\ ChatIdle /\ GuardIdle /\ RouterIdle /\ UsageIdle /\ DiffIdle /\ PesterIdle /\ GraphIdle /\ RetryIdle

TopicSpec == TopicSpecInit /\ [][TopicNext]_vars


RouterSpecInit == RouterInit /\ SandboxInit /\ ScanIdle /\ ChatIdle /\ GuardIdle /\ TopicIdle /\ UsageIdle /\ DiffIdle /\ PesterIdle /\ GraphIdle /\ RetryIdle

RouterSpec == RouterSpecInit /\ [][RouterNext]_vars

UsageSpecInit == UsageInit /\ SandboxInit /\ ScanIdle /\ ChatIdle /\ GuardIdle /\ TopicIdle /\ RouterIdle /\ DiffIdle /\ PesterIdle /\ GraphIdle /\ RetryIdle

UsageSpec == UsageSpecInit /\ [][UsageNext]_vars

PricingSpecInit == UsageInit /\ SandboxInit /\ ScanIdle /\ ChatIdle /\ GuardIdle /\ TopicIdle /\ RouterIdle /\ DiffIdle /\ PesterIdle /\ GraphIdle /\ RetryIdle

PricingSpec == PricingSpecInit /\ [][PricingNext]_vars

DiffSpecInit == DiffInit /\ SandboxInit /\ ScanIdle /\ ChatIdle /\ GuardIdle /\ TopicIdle /\ RouterIdle /\ UsageIdle /\ PesterIdle /\ GraphIdle /\ RetryIdle

DiffSpec == DiffSpecInit /\ [][DiffNext]_vars

PesterSpecInit == PesterInit /\ SandboxInit /\ ScanIdle /\ ChatIdle /\ GuardIdle /\ TopicIdle /\ RouterIdle /\ UsageIdle /\ DiffIdle /\ GraphIdle /\ RetryIdle

PesterSpec == PesterSpecInit /\ [][PesterNext]_vars

GraphSpecInit == GraphInit /\ SandboxInit /\ ScanIdle /\ ChatIdle /\ GuardIdle /\ TopicIdle /\ RouterIdle /\ UsageIdle /\ DiffIdle /\ PesterIdle /\ RetryIdle

GraphSpec == GraphSpecInit /\ [][GraphNext]_vars

RetrySpecInit == RetryInit /\ SandboxInit /\ ScanIdle /\ ChatIdle /\ GuardIdle /\ TopicIdle /\ RouterIdle /\ UsageIdle /\ DiffIdle /\ PesterIdle /\ GraphIdle

RetrySpec == RetrySpecInit /\ [][RetryNext]_vars
(***************************************************************************)
(* Properties of ScriptSandbox.execute and of the /execute endpoint.       *)
(***************************************************************************)
\* execute() has been entered by request r and has not yet handed its result
\* (or its exception) back to the handler.
InExecute(r) == pc[r] \notin {"pending", "handler", "done"}

\* C1: for every script for which validate_script reports at least one blocked
\* command, execute returns status BLOCKED with exit_code -1, empty stdout and
\* execution_time 0, and on that path no temp directory is created and no
\* subprocess is spawned.
C1_BlockedScriptNeverRuns ==
    \A r \in Requests :
        (InExecute(r) /\ Len(Validated[req[r].script][sandbox[r].allow_network].blocked) > 0)
            => /\ pc[r] = "returned"
               /\ result[r].status = "blocked"
               /\ result[r].exit_code = -1
               /\ result[r].stdout = ""
               /\ result[r].execution_time = 0
               /\ temp_dir[r] = 0
               /\ r \notin disk
               /\ spawns[r] = 0
               /\ child[r] = "none"

\* A blocked script has been through execute().
C1_Witness ==
    \E r \in Requests :
        /\ pc[r] = "returned"
        /\ result[r].status = "blocked"
        /\ Len(result[r].blocked_commands) > 0

\* C2: after execute returns on any path that created a temp directory, the
\* temp directory created by that call no longer exists.
C2_TempDirGoneOnReturn ==
    \A r \in Requests :
        (pc[r] = "returned" /\ temp_dir[r] # 0) => temp_dir[r] \notin disk

\* C3: when the child runs longer than the configured timeout, execute kills it
\* before the temp directory is removed and returns status TIMEOUT with empty
\* stdout and the fixed 'timed out after N seconds' message; no child started
\* by the call is still running when execute returns.
C3_TimeoutKillsChild ==
    \A r \in Requests :
        /\ (pc[r] \in {"finally", "returned"} /\ child[r] # "none"
                /\ elapsed[r] = sandbox[r].timeout)
              => /\ result[r].status = "timeout"
                 /\ result[r].stdout = ""
                 /\ result[r].stderr = TimedOutMessage(sandbox[r].timeout)
                 /\ result[r].exit_code = -1
                 /\ child[r] = "killed"
        /\ (pc[r] \in {"finally", "returned", "raised", "done"}) => child[r] # "running"
        /\ (pc[r] \in {"finally", "returned"} /\ result[r].status = "timeout")
              => elapsed[r] = sandbox[r].timeout

\* execute() has returned TIMEOUT after its child ran for the whole timeout.
C3_Witness ==
    \E r \in Requests :
        /\ pc[r] = "returned"
        /\ result[r].status = "timeout"
        /\ child[r] = "killed"
        /\ elapsed[r] = sandbox[r].timeout

(***************************************************************************)
(* Properties of the scanner and of validate_generated_output.             *)
(***************************************************************************)
\* The ordering SAFE < LOW < MEDIUM < HIGH < CRITICAL of class SecurityLevel.
LevelRank(level) ==
    CASE level = "safe"     -> 0
      [] level = "low"      -> 1
      [] level = "medium"   -> 2
      [] level = "high"     -> 3
      [] level = "critical" -> 4

\* The scanner has returned its SecurityScanResult.
ScanHasReturned == scan_returned # NoScanResult

\* The greatest rank among the findings of a result, 0 (SAFE) without findings.
MaxFindingRank(findings) ==
    IF findings = <<>> THEN 0
    ELSE CHOOSE m \in { LevelRank(findings[i].level) : i \in 1..Len(findings) } :
             \A i \in 1..Len(findings) : LevelRank(findings[i].level) <= m

\* C4: for every script, the overall_level returned by scan_powershell_code
\* equals the maximum level over all findings in the result under the ordering
\* SAFE<LOW<MEDIUM<HIGH<CRITICAL (SAFE when there are no findings), whichever
\* pattern table produced each finding and whatever the order of the lines.
C4_OverallLevelIsMaxFinding ==
    ScanHasReturned =>
        LevelRank(scan_returned.overall_level) = MaxFindingRank(scan_returned.findings)

\* C5: the is_safe flag of a scan result is true exactly when overall_level is
\* not CRITICAL in non-strict mode, and exactly when overall_level is neither
\* HIGH nor CRITICAL in strict mode.
C5_IsSafeFollowsLevel ==
    ScanHasReturned =>
        (scan_returned.is_safe <=>
            IF scan_strict_mode
            THEN scan_returned.overall_level \notin {"high", "critical"}
            ELSE scan_returned.overall_level # "critical")

\* A strict scan has returned overall_level HIGH, and is_safe false.
C5_Witness ==
    /\ ScanHasReturned
    /\ scan_strict_mode
    /\ scan_returned.overall_level = "high"
    /\ ~scan_returned.is_safe

\* validate_generated_output has returned.
OutputHasReturned == output_result # NoOutputResult

\* The scan of the generated code has overall_level CRITICAL.
OutputScanIsCritical == scan_powershell_code(scan_code, FALSE).overall_level = "critical"

\* C6 (as amended): validate_generated_output returns is_safe=false if and only
\* if the scan of the generated code has overall_level CRITICAL, and in that
\* case the returned code is the empty string; in every other case the returned
\* code is the generated code with its hardcoded credentials replaced, which is
\* the empty string only when the generated code is the empty string.  The
\* other checks only add warnings and never make is_safe false.
C6_BlockedIffCritical ==
    OutputHasReturned =>
        /\ ~output_result.is_safe <=> OutputScanIsCritical
        /\ OutputScanIsCritical => output_result.code = EmptyCode
        /\ ~OutputScanIsCritical =>
              output_result.code = [scan_code EXCEPT !.redacted = CredentialsIn(scan_code)]
        /\ output_result.code = EmptyCode <=> (OutputScanIsCritical \/ scan_code = EmptyCode)

\* A non-empty generated code with a CRITICAL scan has been blocked, and a
\* generated code that draws warnings from the other checks has been let through.
C6_Witness ==
    /\ OutputHasReturned
    /\ \/ /\ OutputScanIsCritical
          /\ scan_code # EmptyCode
          /\ ~output_result.is_safe
          /\ output_result.code = EmptyCode
       \/ /\ ~OutputScanIsCritical
          /\ scan_powershell_code(scan_code, FALSE).overall_level = "high"
          /\ output_result.is_safe
          /\ Len(output_result.warnings) >= 3

\* C6 (as stated): validate_generated_output returns is_safe=false if and only
\* if the scan of the generated code has overall_level CRITICAL, and in exactly
\* that case the returned code is the empty string.
C6_EmptyCodeExactlyWhenCritical ==
    OutputHasReturned =>
        /\ ~output_result.is_safe <=> OutputScanIsCritical
        /\ output_result.code = EmptyCode <=> OutputScanIsCritical

(***************************************************************************)
(* Properties of the chat handlers.                                        *)
(***************************************************************************)
\* C7: in the chat flow (both the plain and the streaming chat handler), every
\* model-generated response is passed through the Security Guard's
\* output-validation stage (validate_output) before any of it is returned to
\* the caller.
C7_ModelOutputIsValidated ==
    \A i \in 1..Len(delivered) :
        delivered[i].kind = "model" => security_guard.output_validations > 0

\* The caller has received the enumeration of the blocked categories.
BlockedDelivered == \E i \in 1..Len(delivered) : delivered[i].kind = "blocked"

\* C8: a chat request whose latest user message matches a dangerous-ask pattern
\* is never processed silently, in strict and in non-strict mode alike: either
\* the caller receives a response enumerating the blocked categories and the
\* model is not called, or the matched text has been replaced by [REMOVED] in
\* the message that reaches the model.
C8_DangerousAskNeverSilent ==
    chat_request.message.dangerous # {} =>
        /\ BlockedDelivered => ~model_input.called
        /\ model_input.called => model_input.content = chat_request.message.sanitized

\* C9: execute never lets an exception reach its caller: every failure while
\* preparing or running the script (temp-directory creation, writing the script
\* file, process spawn failure) is returned as an ExecutionResult with status ERROR.
C9_NoExceptionLeavesExecute ==
    \A r \in Requests : pc[r] # "raised"

\* C10: while one sandbox-execution request is waiting for its child process,
\* other requests of the service can still make progress.
C10_OthersRunWhileWaiting ==
    \A r \in Requests, q \in Requests :
        (pc[r] = "wait" /\ q # r /\ pc[q] = "pending") => ENABLED HandlerStart(q)

(***************************************************************************)
(* Properties of the guard's statistics.                                   *)
(***************************************************************************)
\* The results of the most recent min(n, HistoryLimit) scan() calls, in call order.
RecentScanResults ==
    LET n == Len(guard_scans)
        k == IF n > HistoryLimit THEN HistoryLimit ELSE n
    IN  [i \in 1..k |-> GuardScanResults[guard_scans[n - k + i]][security_guard.strict_mode]]

\* No counter of the guard is smaller after a step than before it.
CountersDoNotDecrease ==
    /\ security_guard'.blocked_count >= security_guard.blocked_count
    /\ security_guard'.warning_count >= security_guard.warning_count
    /\ security_guard'.output_validations >= security_guard.output_validations

\* C11: after any sequence of scan() and validate_output() calls on one
\* PowerShellSecurityGuard, scan_history holds at most 100 results and they are
\* exactly the most recent scan() results in call order, and blocked_count,
\* warning_count and output_validations never decrease.
C11_HistoryIsRecentScans ==
    /\ [](/\ Len(security_guard.scan_history) <= HistoryLimit
          /\ security_guard.scan_history = RecentScanResults)
    /\ [][CountersDoNotDecrease]_vars

\* More scans than the history holds have been made, the oldest has been
\* dropped, and every counter has moved.
C11_Witness ==
    /\ Len(guard_scans) > HistoryLimit
    /\ Len(security_guard.scan_history) = HistoryLimit
    /\ guard_scans[1] # guard_scans[Len(guard_scans) - HistoryLimit + 1]
    /\ security_guard.blocked_count > 0
    /\ security_guard.warning_count > 0
    /\ security_guard.output_validations > 0

(***************************************************************************)
(* Properties of the topic validator.                                      *)
(***************************************************************************)
\* validate() has returned.
TopicHasReturned == topic_result # NoTopicResult

\* The rules of the specified order that apply to the validated message:
\* 1 greeting, 2 script-generation intent, 3 domain keyword match, 4 off-topic
\* keyword match with confidence > 0.5, 5 conversation continuity, 6 short
\* message, 7 default.
ApplicableRules ==
    LET m == topic_message
    IN  (IF m.greeting THEN {1} ELSE {})
        \cup (IF m.generation THEN {2} ELSE {})
        \cup (IF m.ps_matches > 0 THEN {3} ELSE {})
        \cup (IF KeywordConfidence(m.off_topic_matches) > Hundredths(50) THEN {4} ELSE {})
        \cup (IF \E i \in 1..Len(topic_validator.conversation_history) :
                    /\ i > Len(topic_validator.conversation_history) - 3
                    /\ topic_validator.conversation_history[i].role = "user"
                    /\ topic_validator.conversation_history[i].content.ps_matches > 0
              THEN {5} ELSE {})
        \cup (IF m.word_count < 5 THEN {6} ELSE {})
        \cup {7}

\* The message field that each rule gives its result.
RuleMessages ==
    << "Greeting detected",
       "Script generation request detected",
       "PowerShell/scripting topic detected",
       "Off-topic request detected",
       "Assumed relevant based on conversation context",
       "Short message - assuming relevance",
       "Could not determine PowerShell/scripting relevance" >>

FirstApplicableRule == CHOOSE k \in ApplicableRules : \A j \in ApplicableRules : k <= j

C13_StrictRejectsAmbiguous ==
    TopicHasReturned =>
        /\ topic_validator.strict_mode =>
              /\ ~(topic_result.is_valid /\ topic_result.confidence < Hundredths(50))
              /\ topic_checked.message = "Short message - assuming relevance"
                    => ~topic_result.is_valid
        /\ ~topic_result.is_valid => topic_result.suggested_response # None

\* A strict validator has rejected a message that the short-message fallback
\* had accepted at confidence 0.4, with the redirect message.
C13_Witness ==
    /\ TopicHasReturned
    /\ topic_validator.strict_mode
    /\ topic_checked.is_valid
    /\ topic_checked.confidence = Hundredths(40)
    /\ ~topic_result.is_valid
    /\ topic_result.suggested_response = MoreContextResponse

\* The user turns of a history, in order.
RECURSIVE UserTurns(_)
UserTurns(history) ==
    IF history = <<>> THEN <<>>
    ELSE (IF Head(history).role = "user" THEN <<Head(history)>> ELSE <<>>)
             \o UserTurns(Tail(history))

\* The keyword confidences of the last up to three user turns of the history
\* that have a PowerShell keyword.
LastUserTurnConfidences ==
    LET turns == UserTurns(topic_validator.conversation_history)
        last  == LastThree(turns)
        with  == SelectSeq(last, LAMBDA t : t.content.ps_matches > 0)
    IN  [i \in 1..Len(with) |-> KeywordConfidence(with[i].content.ps_matches)]

\* No rule before conversation continuity applies to the validated message.
NoEarlierRule == ApplicableRules \cap {1, 2, 3, 4} = {}

RouteHasReturned == route_decision # NoRoutingDecision

HighCapabilityModels == {"gpt-5.2", "gpt-5.2-codex"}

\* C15: with cost_sensitive false, a SIMPLE or MODERATE query of task type
\* CHAT, EXPLANATION, CODE_REVIEW, DEBUGGING or ARCHITECTURE is routed to
\* gpt-5-mini, and a high-capability model is selected for those task types
\* only when the complexity is COMPLEX or EXPERT.
C15_HighCapabilityOnlyWhenComplex ==
    (/\ RouteHasReturned
     /\ ~router.cost_sensitive
     /\ route_decision.task_type \in {TaskType.CHAT, TaskType.EXPLANATION, TaskType.CODE_REVIEW,
                                      TaskType.DEBUGGING, TaskType.ARCHITECTURE})
    => /\ route_decision.complexity \in {TaskComplexity.SIMPLE, TaskComplexity.MODERATE}
            => route_decision.model_id = "gpt-5-mini"
       /\ route_decision.model_id \in HighCapabilityModels
            => route_decision.complexity \in {TaskComplexity.COMPLEX, TaskComplexity.EXPERT}

\* C16: a non-null alternative_model names a model other than the selected one
\* whose estimated cost is not higher than the selected model's, and
\* alternative_model is null exactly when the selected model is gpt-5-mini.
C16_AlternativeIsNotCostlier ==
    RouteHasReturned =>
        /\ route_decision.alternative_model # None
              => /\ route_decision.alternative_model # route_decision.model_id
                 /\ EstimatedCost(MODELS[route_decision.alternative_model]) <= route_decision.estimated_cost
        /\ route_decision.alternative_model = None <=> route_decision.model_id = "gpt-5-mini"

\* C23: for SECURITY_ANALYSIS tasks route selects gpt-5.2-codex for the
\* complexities MODERATE, COMPLEX and EXPERT and gpt-5-mini only for SIMPLE.
C23_SecurityModelRisesWithComplexity ==
    (RouteHasReturned /\ route_decision.task_type = TaskType.SECURITY_ANALYSIS) =>
        /\ route_decision.complexity \in {TaskComplexity.MODERATE, TaskComplexity.COMPLEX, TaskComplexity.EXPERT}
              => route_decision.model_id = "gpt-5.2-codex"
        /\ route_decision.complexity = TaskComplexity.SIMPLE => route_decision.model_id = "gpt-5-mini"

\* C24: get_model_for_task(t, c) returns the model_id route selects for a
\* query of task type t and complexity c, for every t and c.
C24_ModelForTaskIsRouteSelection ==
    task_call # NoTaskCall =>
        task_call.model_id =
            SelectModel(router, task_call.task_type, TaskComplexity[task_call.complexity]).model_id

\* C28: the router returned by get_router(cost_sensitive=c) has cost_sensitive
\* equal to c, the argument of the current call, after any sequence of
\* get_router calls.
C28_GetRouterHonoursArgument ==
    got_router # NoGotRouter => got_router.router.cost_sensitive = got_router.cost_sensitive

\* ---------------------------------------------------------------------------
\* Claims about the token counter
\* ---------------------------------------------------------------------------

\* The sum of the total_tokens of by_model over the models of S.
RECURSIVE SumTokens(_, _)
SumTokens(by_model, S) ==
    IF S = {} THEN 0
    ELSE LET m == CHOOSE x \in S : TRUE
         IN  by_model[m].total_tokens + SumTokens(by_model, S \ {m})

\* The sum of the calls of by_model over the models of S.
RECURSIVE SumCalls(_, _)
SumCalls(by_model, S) ==
    IF S = {} THEN 0
    ELSE LET m == CHOOSE x \in S : TRUE
         IN  by_model[m].calls + SumCalls(by_model, S \ {m})

\* What a session record says of the call it was appended by.
CallOfSession(s) ==
    [timestamp |-> s.timestamp, model |-> s.model, operation |-> s.operation,
     input_tokens |-> s.input_tokens, output_tokens |-> s.output_tokens]

\* The same of a track_usage call that was made.
CallMade(c) ==
    [timestamp |-> c.timestamp, model |-> UsageCalls[c.call].model,
     operation |-> UsageCalls[c.call].operation,
     input_tokens |-> UsageCalls[c.call].input_tokens,
     output_tokens |-> UsageCalls[c.call].output_tokens]

\* C17: after any sequence of track_usage and reset_usage calls on an empty
\* usage document, total_tokens is the sum of the per-model token totals, the
\* per-model call counts sum to the number of track_usage calls since the last
\* reset, and sessions holds the most recent min(that number, 1000) of those
\* calls in call order.
C17_AggregatesAgreeWithCalls ==
    LET n    == Len(usage_calls)
        kept == IF n < SessionsLimit THEN n ELSE SessionsLimit
        models == DOMAIN usage_data.by_model
    IN  /\ usage_data.total_tokens =
              SumTokens(usage_data.by_model, models)
        /\ SumCalls(usage_data.by_model, models) = n
        /\ Len(usage_data.sessions) = kept
        /\ \A i \in 1..kept :
              CallOfSession(usage_data.sessions[i]) = CallMade(usage_calls[n - kept + i])

\* C17 witness: more than 1000 calls have been tracked since the last reset.
C17_Witness ==
    /\ Len(usage_calls) > SessionsLimit
    /\ Len(usage_data.sessions) = SessionsLimit

\* C18: a model whose lower-cased name is exactly a key of the pricing table
\* is priced with that key's own row, and a model matching no key is priced
\* with the gpt-4o row.
C18_ExactKeyUsesOwnRow ==
    usage_estimate # NoEstimate =>
        LET name == Lower(ModelText[usage_estimate.model])
            cost(row) == CostAt(row, usage_estimate.estimated_input_tokens,
                                     usage_estimate.estimated_output_tokens)
        IN  /\ InPricing(name) => usage_estimate.estimated_cost = cost(PricingRow(name))
            /\ (\A i \in 1..Len(PRICING) : ~Contains(name, PRICING[i].key))
                  => usage_estimate.estimated_cost = cost(PricingRow(<<"g","p","t","-","4","o">>))

\* ---------------------------------------------------------------------------
\* Claims about the code diff generator
\* ---------------------------------------------------------------------------

\* C19: for every script text A, generate_diff(A, A) has lines_added,
\* lines_removed and lines_modified 0, no hunk, and similarity_ratio 1.0.
C19_DiffOfEqualTextsIsEmpty ==
    (diff_returned /\ diff_original = diff_improved) =>
        /\ diff_result.lines_added = 0
        /\ diff_result.lines_removed = 0
        /\ diff_result.lines_modified = 0
        /\ diff_result.hunks = <<>>
        /\ diff_result.similarity_ratio.den > 0
        /\ diff_result.similarity_ratio.num = diff_result.similarity_ratio.den

\* C19 witness: generate_diff has returned for a text of two lines or more
\* given as both arguments.
C19_Witness ==
    /\ diff_returned
    /\ diff_original = diff_improved
    /\ Len(SplitLines(diff_original)) >= 2

\* The file and hunk headers of a unified diff.
HeaderMarkers == {"---", "+++", "@@"}

\* Each header of the text is a line of its own.
HeadersOnOwnLines(text) ==
    \A l \in 1..Len(text) :
        (\E p \in 1..Len(text[l]) : text[l][p].marker \in HeaderMarkers) => Len(text[l]) = 1

\* What patch answers to a text it cannot read.
Rejected == <<"rejected">>

\* A line of a patch stands for a whole line of the file.
WholeLine(s) == IF s # <<>> /\ s[Len(s)] = "\n" THEN s ELSE Append(s, "\n")

RECURSIVE Flatten(_)
Flatten(lines) == IF lines = <<>> THEN <<>> ELSE Head(lines) \o Flatten(Tail(lines))

\* patch, from line k of the diff on: pos lines of the file have been read
\* and out holds the lines written.
RECURSIVE PatchFrom(_, _, _, _, _)
PatchFrom(text, k, file, pos, out) ==
    IF k > Len(text) THEN Flatten(out \o SubSeq(file, pos + 1, Len(file)))
    ELSE IF Len(text[k]) # 1 THEN Rejected
    ELSE LET x == text[k][1]
         IN  CASE x.marker \in {"---", "+++"} ->
                    IF k <= 2 THEN PatchFrom(text, k + 1, file, pos, out) ELSE Rejected
               [] x.marker = "@@" ->
                    LET start == IF x.old.length = 0 THEN x.old.beginning ELSE x.old.beginning - 1
                    IN  IF k <= 2 \/ start < pos \/ start > Len(file) THEN Rejected
                        ELSE PatchFrom(text, k + 1, file, start, out \o SubSeq(file, pos + 1, start))
               [] x.marker \in {" ", "-"} ->
                    IF k <= 3 \/ pos >= Len(file) \/ WholeLine(file[pos + 1]) # WholeLine(x.text) THEN Rejected
                    ELSE PatchFrom(text, k + 1, file, pos + 1,
                                   IF x.marker = " " THEN Append(out, file[pos + 1]) ELSE out)
               [] x.marker = "+" ->
                    IF k <= 3 THEN Rejected
                    ELSE PatchFrom(text, k + 1, file, pos, Append(out, WholeLine(x.text)))

\* The file patch leaves when the diff is applied to the original text.
Patched(original, text) == PatchFrom(text, 1, SplitLines(original), 0, <<>>)

\* C20: for all script texts A and B, the unified_diff of generate_diff(A, B)
\* has each ---, +++ and @@ header on a line of its own and, applied to A as a
\* patch, gives B.
C20_UnifiedDiffPatchesAToB ==
    diff_returned =>
        /\ HeadersOnOwnLines(diff_result.unified_diff)
        /\ Patched(diff_original, diff_result.unified_diff) = diff_improved

\* ---------------------------------------------------------------------------
\* Claims about validate_script and the command lists
\* ---------------------------------------------------------------------------

\* The positions at which a short alias stands in the script as a word.
AliasPositions(script) ==
    {i \in 1..Len(script) :
        \E alias \in WordBoundaryAliases :
            /\ i + Len(alias) - 1 <= Len(script)
            /\ Upper(SubSeq(script, i, i + Len(alias) - 1)) = Upper(alias)
            /\ IsWordBoundary(script, i)
            /\ IsWordBoundary(script, i + Len(alias))}

\* A short alias occurs in the script, and only as the name of a variable.
AliasOnlyAsVariable(script) ==
    /\ AliasPositions(script) # {}
    /\ \A i \in AliasPositions(script) : i > 1 /\ script[i - 1] = "$"

\* The script has no block-list hit other than a short alias.
NoOtherBlockListHit(script, allow_network) ==
    /\ \A i \in 1..Len(BLOCKED_COMMANDS) :
          BLOCKED_COMMANDS[i] \notin WordBoundaryAliases
              => ~Contains(Upper(script), Upper(BLOCKED_COMMANDS[i]))
    /\ SuspiciousBlockedFrom(script, allow_network, 1) = <<>>

\* C21: a script in which a short alias (iex, icm, iwr, irm) occurs only as a
\* variable name and which has no other block-list hit gets an empty
\* blocked_commands list and is_valid = true from validate_script.
C21_AliasAsVariableIsNotBlocked ==
    \A r \in Requests :
        (/\ InExecute(r)
         /\ AliasOnlyAsVariable(req[r].script)
         /\ NoOtherBlockListHit(req[r].script, sandbox[r].allow_network))
            => /\ validation[r].blocked = <<>>
               /\ validation[r].is_valid

\* C25: a script that is a single command of ALLOWED_COMMANDS passes
\* validate_script with is_valid = true and an empty blocked_commands list.
C25_AllowedCommandIsValid ==
    \A r \in Requests :
        (/\ InExecute(r)
         /\ \E i \in 1..Len(ALLOWED_COMMANDS) : req[r].script = ALLOWED_COMMANDS[i])
            => /\ validation[r].is_valid
               /\ validation[r].blocked = <<>>

\* C26: while scan_powershell_code processes the lines of a script in order,
\* overall_level never decreases from one line to the next; once it is CRITICAL
\* it stays CRITICAL until the result is returned, which carries it.
C26_OverallLevelNeverDecreases ==
    [][ /\ LevelRank(scan_state'.overall_level) >= LevelRank(scan_state.overall_level)
        /\ scan_state.overall_level = "critical" => scan_state'.overall_level = "critical"
        /\ (~ScanHasReturned /\ ScanHasReturned') =>
               scan_returned'.overall_level = scan_state.overall_level ]_vars

\* The scanner is past a second line that added a finding below CRITICAL after
\* the first line had made overall_level CRITICAL.
C26_Witness ==
    /\ line_num = 2
    /\ scan_state.overall_level = "critical"
    /\ \E i \in 1..Len(scan_state.findings) :
          /\ scan_state.findings[i].line_number = 1
          /\ scan_state.findings[i].level = "critical"
    /\ \E i \in 1..Len(scan_state.findings) :
          /\ scan_state.findings[i].line_number = 2
          /\ scan_state.findings[i].category = "obfuscation"

\* C27: PowerShellSecurityGuard.validate_output changes only
\* output_validations: scan_history, blocked_count and warning_count are left
\* unchanged by it, whatever code it is given (including code it blocks as
\* CRITICAL).
C27_ValidateOutputTouchesOnlyItsCounter ==
    [][ security_guard'.output_validations # security_guard.output_validations =>
            security_guard' = [security_guard EXCEPT !.output_validations = @ + 1] ]_vars

\* validate_output has blocked a CRITICAL code on a guard whose scan() had
\* already filled the history and moved both counters.
C27_Witness ==
    /\ output_validation # NoOutputValidation
    /\ ~output_validation.returned.is_safe
    /\ output_validation.returned.code = EmptyCode
    /\ security_guard.output_validations > 0
    /\ Len(security_guard.scan_history) > 0
    /\ security_guard.blocked_count > 0
    /\ security_guard.warning_count > 0
(***************************************************************************)
(* Properties of PesterGenerator.generate_tests.                           *)
(***************************************************************************)
\* generate_tests has returned.
TestsGenerated == pester_tests # NoPesterTests

\* The number of tests the claim gives function func.
TestCount(self, func) ==
    Cardinality({ i \in 1..Len(func.parameters) : func.parameters[i].mandatory })
    + Cardinality({ i \in 1..Len(func.parameters) : func.parameters[i].type \notin {"object", "string"} })
    + Len(func.outputs)
    + (IF self.test_coverage \in {"standard", "comprehensive"} THEN 1 ELSE 0)
    + (IF func.has_should_process THEN 1 ELSE 0)

\* The number of tests of the functions before function i.
RECURSIVE TestsBefore(_, _, _)
TestsBefore(self, functions, i) ==
    IF i <= 1 THEN 0
    ELSE TestsBefore(self, functions, i - 1) + TestCount(self, functions[i - 1])

\* The positions in the list of the tests of function i.
TestsAt(self, functions, i) ==
    (TestsBefore(self, functions, i) + 1)..TestsBefore(self, functions, i + 1)

\* C22: for every parsed function f, generate_tests emits exactly (number of
\* mandatory parameters) + (number of parameters whose type is neither object
\* nor string) + (number of inferred output types) + (1 when coverage is
\* standard or comprehensive) + (1 when f supports ShouldProcess) tests, all
\* with function_name = f.name, so a function with no parameters still gets
\* its output and error tests.
C22_TestsPerFunction ==
    TestsGenerated =>
        /\ Len(pester_tests) = TestsBefore(pester_generator, pester_functions, Len(pester_functions) + 1)
        /\ \A i \in 1..Len(pester_functions) :
              LET at == TestsAt(pester_generator, pester_functions, i)
              IN  /\ \A k \in at : pester_tests[k].function_name = pester_functions[i].name
                  /\ pester_functions[i].parameters = <<>> =>
                        /\ \E k \in at : pester_tests[k].test_name.text = "returns type"
                        /\ pester_generator.test_coverage # "minimal" =>
                              \E k \in at : pester_tests[k].test_name.text = "handles errors gracefully"

\* The tests of a parsed script of two functions have been generated with
\* standard coverage: one function has no parameters, the other a parameter of
\* type int.
C22_Witness ==
    /\ TestsGenerated
    /\ pester_script # NoPesterScript
    /\ pester_generator.test_coverage = "standard"
    /\ Len(pester_functions) = 2
    /\ \E i \in 1..2 : pester_functions[i].parameters = <<>>
    /\ \E i \in 1..2 : \E j \in 1..Len(pester_functions[i].parameters) :
          pester_functions[i].parameters[j].type = "int"
    /\ Len(pester_tests) = 5

(***************************************************************************)
(* Properties of the LangGraph workflow.                                   *)
(***************************************************************************)
\* C29: every value should_continue returns in a reachable state is a key of
\* the conditional-edge map registered for the analyze node (tools, synthesis,
\* human_review, END), so routing out of analyze never targets an unmapped
\* node; in particular the state with one or two tool messages, no tool calls
\* on the last message and no final response routes to a mapped node.
C29_ShouldContinueReturnsMappedKey ==
    /\ graph_routed # NoRoute => graph_routed \in DOMAIN AnalyzeEdges
    /\ graph_node # Unmapped

(***************************************************************************)
(* Properties of retry_with_backoff.                                       *)
(***************************************************************************)
\* Invocation i of the function raised an exception of retryable_errors.
RaisedRetryable(i) ==
    /\ retry_calls[i].kind = "raised"
    /\ retry_calls[i].class \in retry_wrapper.retryable_errors

\* C30: a function wrapped by retry_with_backoff is invoked at most
\* max_retries + 1 times: an exception outside retryable_errors propagates
\* after the first attempt with no retry, and when every attempt fails with a
\* retryable error that error is re-raised to the caller after the last attempt
\* rather than swallowed.
C30_RetryIsBounded ==
    /\ Len(retry_calls) <= retry_wrapper.max_retries + 1
    /\ \A i \in 1..Len(retry_calls) :
          (retry_calls[i].kind = "raised" /\ ~RaisedRetryable(i)) =>
              /\ i = Len(retry_calls)
              /\ retry_outcome = retry_calls[i]
    /\ ( /\ Len(retry_calls) = retry_wrapper.max_retries + 1
         /\ \A i \in 1..Len(retry_calls) : RaisedRetryable(i) ) =>
           retry_outcome = retry_calls[Len(retry_calls)]

\* Every one of three attempts has failed with a retryable error, the wrapper
\* has slept twice and has raised the last error.
C30_Witness ==
    /\ retry_wrapper.max_retries = 2
    /\ Len(retry_calls) = 3
    /\ \A i \in 1..3 : RaisedRetryable(i)
    /\ Len(retry_sleeps) = 2
    /\ retry_outcome = retry_calls[3]
    /\ retry_outcome.kind = "raised"

====
